---- MODULE Spec2Model ----
(***************************************************************************)
(* Model of the attachment export orchestrator of zotero-pdf2md:           *)
(* zotero_files2md (dedup filter, worker pool plan, per-item pipeline,     *)
(* summary) and the older zotero_pdf2md exporter.                          *)
(*                                                                         *)
(* A text is a sequence of one-character strings; Python's None and ""     *)
(* are both the empty sequence (every use in the code is `x or y`).        *)
(* The character "e'" stands for a precomposed accented letter and "'"     *)
(* for the combining accent NFKD decomposes it into.                       *)
(***************************************************************************)
EXTENDS FiniteSets, Integers, Sequences, TLC

\* ------------------------------------------------------------------ bounds
MaxItems == 2        \* longest attachment list the source yields
MaxExisting == 1     \* output files present before the run
MaxCap == 4          \* largest user worker cap (settings.max_workers)
MaxWpg == 2          \* largest settings.workers_per_gpu
MaxGpu == 2          \* largest detected accelerator count
MaxCpu == 13         \* largest os.cpu_count()
MaxExternal == 1     \* most files another program creates during a run
MaxWork == 10        \* largest work set the pool is planned for alone
MaxRemote == 3       \* most attachment items the remote library holds
MaxLimit == 2        \* largest settings.limit
MaxChunk == 2        \* largest settings.chunk_size
MaxLen == 3          \* longest short text given to slugify
MaxSetting == 1      \* largest numeric setting given to ExportSettings
MaxPairs == 3        \* most COLLECTION_KEY=OUTPUT_DIR strings in one call
MaxPage == 3         \* largest page number of a document
MaxRouted == 3       \* most items of a routed work set
MaxErr == 3          \* errors linked to a raised error, itself included

\* ----------------------------------------------------------- small helpers
Min(a, b) == IF a < b THEN a ELSE b
Max(a, b) == IF a > b THEN a ELSE b

RECURSIVE Count(_, _)
\* number of results with the given status: sum(r.status == s for r in results)
Count(rs, s) ==
    IF rs = <<>> THEN 0
    ELSE (IF Head(rs).status = s THEN 1 ELSE 0) + Count(Tail(rs), s)

\* ------------------------------------------------------------------- slugs
SLUG_MAX == 120

AlnumChars == {"a", "b", "c", "e", "i", "k", "m", "p", "t", "1", "2", "3", "4"}
SlugChars == AlnumChars \cup {".", "_", "-"}
Whitespace == {" "}

RECURSIVE NFKD(_)
\* unicodedata.normalize("NFKD", text): an accented letter becomes the
\* letter and its combining accent (the text is split in halves, which
\* keeps the recursion shallow on long texts)
NFKD(text) ==
    IF text = <<>> THEN <<>>
    ELSE IF Len(text) = 1
    THEN (IF text[1] = "e'" THEN <<"e", "'">> ELSE text)
    ELSE LET h == Len(text) \div 2
         IN NFKD(SubSeq(text, 1, h)) \o NFKD(SubSeq(text, h + 1, Len(text)))

\* the least position of text from `from` on whose character is (in = TRUE)
\* or is not (in = FALSE) in chars; Len(text) + 1 if there is none
FirstAt(text, from, chars, in) ==
    LET ks == {k \in from..Len(text) : (text[k] \in chars) = in}
    IN IF ks = {} THEN Len(text) + 1
       ELSE CHOOSE k \in ks : \A m \in ks : k <= m

RECURSIVE LStrip(_, _)
LStrip(text, chars) ==
    IF text # <<>> /\ Head(text) \in chars THEN LStrip(Tail(text), chars)
    ELSE text

RECURSIVE RStrip(_, _)
RStrip(text, chars) ==
    IF text # <<>> /\ text[Len(text)] \in chars
    THEN RStrip(SubSeq(text, 1, Len(text) - 1), chars)
    ELSE text

Strip(text, chars) == RStrip(LStrip(text, chars), chars)

RECURSIVE SubRuns(_, _, _)
\* re.sub of every maximal run of characters of `bad` (at least minRun long)
\* by a single "-"; shorter runs are kept.  The characters before the next
\* run are copied at once; `rest` ranges over a set of one text, which
\* computes the rest of the text once where a LET would compute it at every
\* use
SubRuns(text, bad, minRun) ==
    IF text = <<>> THEN <<>>
    ELSE IF Head(text) \in bad
         THEN LET rest == LStrip(text, bad)
                  run == Len(text) - Len(rest)
              IN (IF run >= minRun THEN <<"-">> ELSE SubSeq(text, 1, run))
                 \o SubRuns(rest, bad, minRun)
         ELSE CHOOSE r \in
                  {SubSeq(text, 1, Len(text) - Len(rest))
                       \o SubRuns(rest, bad, minRun) :
                   rest \in {SubSeq(text, FirstAt(text, 1, bad, TRUE),
                                    Len(text))}} : TRUE

AllChars == SlugChars \cup Whitespace \cup {"/", "e'", "'"}

_clean_slug_text(text) ==
    LET t1 == Strip(NFKD(text), Whitespace)
        t2 == SubRuns(t1, AllChars \ SlugChars, 1)
        t3 == SubRuns(t2, {"-"}, 2)
    IN Strip(t3, {"-", ".", "_"})

slugify(value, fallback) ==
    LET t1 == _clean_slug_text(value)
        t2 == IF t1 = <<>> THEN _clean_slug_text(fallback) ELSE t1
        t3 == IF t2 = <<>> THEN <<"i", "t", "e", "m">> ELSE t2
    IN SubSeq(t3, 1, Min(SLUG_MAX, Len(t3)))

Or(a, b) == IF a # <<>> THEN a ELSE b      \* Python's `a or b` on texts

\* the path output_dir / parent_slug / f"{filename_base}.md" is the pair
\* <<parent_slug, filename_base>>
compute_output_path(attachment, reference_folder_name) ==
    LET parent_value ==
            IF reference_folder_name = "item-title"
            THEN attachment.parent_title
            ELSE Or(attachment.parent_citation_key, attachment.parent_title)
        parent_fallback ==
            IF reference_folder_name = "item-title"
            THEN Or(attachment.parent_item_key,
                    Or(attachment.parent_citation_key, <<"i", "t", "e", "m">>))
            ELSE Or(attachment.parent_item_key, <<"i", "t", "e", "m">>)
    IN << slugify(parent_value, parent_fallback),
          slugify(attachment.title, attachment.attachment_key) >>

\* the call sites of exporter.py pass no strategy: the default applies
FilterPath(attachment) == compute_output_path(attachment, "citation-key")

\* zotero_pdf2md's slugify: the fallback is returned as it is, uncleaned
pdf2md_slugify(value, fallback) ==
    LET t1 == Strip(NFKD(value), Whitespace)
        t2 == SubRuns(t1, AllChars \ SlugChars, 1)
        t3 == Strip(SubRuns(t2, {"-"}, 2), {"-", ".", "_"})
        t4 == IF t3 = <<>> THEN fallback ELSE t3
    IN SubSeq(t4, 1, Min(SLUG_MAX, Len(t4)))

\* zotero_pdf2md's output path: always named after the parent's title
pdf2md_compute_output_path(attachment) ==
    << pdf2md_slugify(attachment.parent_title,
                      Or(attachment.parent_item_key, <<"i", "t", "e", "m">>)),
       pdf2md_slugify(attachment.title, attachment.attachment_key) >>

\* ------------------------------------------------------------ the library
\* Attachments the remote library can hold.  A1/A4 collide under
\* citation-key naming only, A1/A3 under item-title naming only.
A1 == [attachment_key |-> <<"k", "1">>, parent_item_key |-> <<"p", "1">>,
       title |-> <<"a", " ", "b">>, parent_title |-> <<"t">>,
       parent_citation_key |-> <<"c">>]
A3 == [attachment_key |-> <<"k", "3">>, parent_item_key |-> <<"p", "2">>,
       title |-> <<"a", "/", "/", "b">>, parent_title |-> <<" ", "t", ".">>,
       parent_citation_key |-> <<"e'">>]
A4 == [attachment_key |-> <<"k", "4">>, parent_item_key |-> <<"p", "3">>,
       title |-> <<"a", "-", "-", "b">>, parent_title |-> <<"m">>,
       parent_citation_key |-> <<"_", "c">>]
Library == <<A1, A3, A4>>     \* in the order the remote lists them

\* AttachmentMetadata.filename of the library's attachments: A1 and A3 have
\* the same file name, A4 has none
Filename(attachment) ==
    IF attachment.attachment_key \in {A1.attachment_key, A3.attachment_key}
    THEN <<"f", ".", "x">>
    ELSE <<>>

\* pathlib's suffix of a file name: from its last dot on, unless that dot
\* is the first or the last character
PathSuffix(name) ==
    LET dots == {i \in 1..Len(name) : name[i] = "."}
        last == IF dots = {} THEN 0
                ELSE CHOOSE i \in dots : \A j \in dots : j <= i
    IN IF last <= 1 \/ last = Len(name) THEN <<>>
       ELSE SubSeq(name, last, Len(name))

\* mutant: the downloaded file is named after the attachment's file name
_temp_path_for_attachment_ByFilename(attachment) ==
    Or(Filename(attachment), attachment.attachment_key)

\* _temp_path_for_attachment: the name of the downloaded file in the run's
\* temporary directory
_temp_path_for_attachment(attachment) ==
    LET filename == Or(Filename(attachment), attachment.attachment_key)
        suffix == PathSuffix(filename)
    IN attachment.attachment_key \o suffix
Catalogue == {Library[k] : k \in 1..Len(Library)}

Strategies == {"citation-key", "item-title"}

AllPaths ==
    {compute_output_path(a, s) : a \in Catalogue, s \in Strategies}
    \cup {pdf2md_compute_output_path(a) : a \in Catalogue}

\* the filters and the limit select a sublist of the library: every
\* attachment key at most once, in the remote's order
PickedAt(ks) ==
    LET RECURSIVE Pick(_)
        Pick(k) == IF k > Len(Library) THEN <<>>
                   ELSE (IF k \in ks THEN <<Library[k]>> ELSE <<>>) \o Pick(k + 1)
    IN Pick(1)

ItemLists ==
    {PickedAt(ks) : ks \in {K \in SUBSET (1..Len(Library)) :
                                Cardinality(K) <= MaxItems}}

\* ------------------------------------------------------- worker pool plan
CPU_DEFAULT == 4
THREAD_CAP == 12

\* mutant: the per-accelerator cap G * W is left out of the minimum
TotalWorkersGpu_NoPerGpuCap(n, cap, W, G) ==
    Max(1, Min(n, IF cap # 0 THEN cap ELSE n))

\* total_workers of the accelerator regime; cap = 0 is max_workers = None
TotalWorkersGpu(n, cap, W, G) ==
    LET max_workers_total == IF cap # 0 THEN cap ELSE n
        max_workers_by_gpu == G * W
    IN Max(1, Min(n, Min(max_workers_total, max_workers_by_gpu)))

\* mutant: the remainder test is off by one (idx <= remainder)
ProcessesPerGpu_OffByOne(total_workers, gpus_used) ==
    LET base_workers == total_workers \div gpus_used
        remainder == total_workers % gpus_used
    IN [k \in 1..gpus_used |->
           base_workers + (IF k - 1 <= remainder THEN 1 ELSE 0)]

\* processes_per_gpu, listed in gpu_ids order (entry idx + 1 is for gpu idx)
ProcessesPerGpu(total_workers, gpus_used) ==
    LET base_workers == total_workers \div gpus_used
        remainder == total_workers % gpus_used
    IN [k \in 1..gpus_used |->
           base_workers + (IF k - 1 < remainder THEN 1 ELSE 0)]

RECURSIVE ExecutorSlots(_, _, _)
\* executor_slots: gpu id g repeated processes_per_gpu[g] times, in id order
ExecutorSlots(gpu_ids, per_gpu, k) ==
    IF k > Len(gpu_ids) THEN <<>>
    ELSE [j \in 1..per_gpu[k] |-> gpu_ids[k]]
         \o ExecutorSlots(gpu_ids, per_gpu, k + 1)

\* mutant: the pool is not capped by the size of the work set
TotalWorkersThreads_NoWorkSetCap(n, cap, cpu) ==
    IF cap # 0 THEN cap
    ELSE Min(THREAD_CAP, IF cpu # 0 THEN cpu ELSE CPU_DEFAULT)

\* max_workers of the thread regime; cpu = 0 is os.cpu_count() = None
TotalWorkersThreads(n, cap, cpu) ==
    LET max_workers ==
            IF cap # 0 THEN cap
            ELSE Min(THREAD_CAP, IF cpu # 0 THEN cpu ELSE CPU_DEFAULT)
    IN Max(1, Min(max_workers, n))

\* the pool of export_library for a work set of n items: cap and W are
\* settings.max_workers and settings.workers_per_gpu, G and cpu what
\* _detect_gpu_count() and os.cpu_count() return
PoolPlan(n, use_multi_gpu, cap, W, G, cpu) ==
    IF use_multi_gpu /\ G > 0
    THEN LET total_workers == TotalWorkersGpu(n, cap, W, G)
             gpus_used == Min(G, total_workers)
             gpu_ids == [k \in 1..gpus_used |-> k - 1]
             per_gpu == ProcessesPerGpu(total_workers, gpus_used)
         IN [regime |-> "gpu", total_workers |-> total_workers,
             gpu_ids |-> gpu_ids, processes_per_gpu |-> per_gpu,
             executor_slots |-> ExecutorSlots(gpu_ids, per_gpu, 1)]
    ELSE [regime |-> "threads",
          total_workers |-> TotalWorkersThreads(n, cap, cpu),
          gpu_ids |-> <<>>, processes_per_gpu |-> <<>>,
          executor_slots |-> <<>>]

NoPlan == [regime |-> "none", total_workers |-> 0, gpu_ids |-> <<>>,
           processes_per_gpu |-> <<>>, executor_slots |-> <<>>]

\* ------------------------------------------------------------------ state
VARIABLES
    package,         \* which exporter runs: "files2md" or "pdf2md"
    settings,        \* ExportSettings, but for the two fields StartPool reads
    attachments,     \* list(client.iter_attachments())
    fs,              \* output paths that exist on the filesystem
    dirs,            \* reference folders that exist under output_dir
    pc,              \* position of export_library
    loop_idx,        \* index of the running for loop of export_library
    results,         \* results: list[ConversionResult]
    seen_output_paths,
    attachments_to_process,   \* positions in attachments, in source order
    plan_in,         \* the inputs of a pool plan computed alone
    pool,            \* the worker pool plan
    queues,          \* executor -> submitted work items not yet started
    workers,         \* worker -> [executor, gpu, task]
    tasks,           \* work item -> state of its _process_attachment call
    processed,       \* processed: list[ConversionResult | None]
    writes,          \* history: <<work item, path>> of every completed write
    summary,         \* the returned ExportSummary
    args,            \* the arguments of a function called on its own
    ret              \* what that call has yielded or returned so far

vars == << package, settings, attachments, fs, dirs, pc, loop_idx, results,
           seen_output_paths, attachments_to_process, plan_in,
           pool, queues, workers, tasks, processed, writes, summary,
           args, ret >>

THREADS == 0 - 1     \* executor id of the single ThreadPoolExecutor
NO_GPU == 0 - 1      \* CUDA_VISIBLE_DEVICES not set by _init_worker

NoResult == [source |-> 0, output |-> <<>>, status |-> "none"]
Result(src, out, status) == [source |-> src, output |-> out, status |-> status]

\* mutant: the skipped outcomes are left out of the count
summarize_results_SkippedUncounted(rs) ==
    [processed |-> Len(rs),
     converted |-> Count(rs, "converted"),
     skipped |-> 0,
     dry_run |-> Count(rs, "dry-run"),
     output_paths |-> [k \in 1..Len(rs) |-> rs[k].output]]

\* zotero_files2md's summarize_results
summarize_results(rs) ==
    [processed |-> Len(rs),
     converted |-> Count(rs, "converted"),
     skipped |-> Count(rs, "skipped"),
     dry_run |-> Count(rs, "dry-run"),
     output_paths |-> [k \in 1..Len(rs) |-> rs[k].output]]

NoSummary == [processed |-> 0, converted |-> 0, skipped |-> 0, dry_run |-> 0,
              output_paths |-> <<>>]

\* max_workers and workers_per_gpu are read once, by StartPool, and are
\* drawn there
\* skip_existing is a field of zotero_pdf2md's settings only, False unless
\* the caller sets it
SettingsSpace ==
    [dry_run : BOOLEAN, overwrite : BOOLEAN,
     reference_folder_name : Strategies, use_multi_gpu : BOOLEAN,
     skip_existing : {FALSE}]

NoPlanIn == [n |-> 0, use_multi_gpu |-> FALSE, max_workers |-> 0,
             workers_per_gpu |-> 1, gpu_count |-> 0, cpu_count |-> 0]

\* no function is called on its own while export_library runs
NoCall == [st |-> "none"]

\* what no step of export_library changes
inputVars == << package, settings, attachments, args, ret >>

\* zotero_pdf2md has neither naming strategies nor accelerator pools
PdfSettingsSpace ==
    {s \in SettingsSpace :
        s.reference_folder_name = "item-title" /\ ~s.use_multi_gpu}

\* the paths whose existence a run looks at: output_path.exists() of
\* exporter.py and of converter.py in zotero_files2md, of converter.py in
\* zotero_pdf2md.  Files elsewhere under output_dir are never looked at, so
\* the files present before a run are drawn from these paths.
RunPaths(pkg, s, atts) ==
    IF pkg = "files2md"
    THEN {FilterPath(atts[k]) : k \in 1..Len(atts)}
         \cup {compute_output_path(atts[k], s.reference_folder_name) :
                   k \in 1..Len(atts)}
    ELSE {pdf2md_compute_output_path(atts[k]) : k \in 1..Len(atts)}

Init ==
    /\ package \in {"files2md", "pdf2md"}
    /\ settings \in (IF package = "files2md" THEN SettingsSpace
                     ELSE PdfSettingsSpace)
    /\ attachments \in ItemLists
    /\ fs \in {F \in SUBSET RunPaths(package, settings, attachments) :
                   Cardinality(F) <= MaxExisting}
    /\ dirs = {p[1] : p \in fs}
    /\ pc = "start"
    /\ loop_idx = 0
    /\ results = <<>>
    /\ seen_output_paths = {}
    /\ attachments_to_process = <<>>
    /\ plan_in = NoPlanIn
    /\ pool = NoPlan
    /\ args = NoCall
    /\ ret = NoCall
    /\ queues = <<>>
    /\ workers = <<>>
    /\ tasks = <<>>
    /\ processed = <<>>
    /\ writes = {}
    /\ summary = NoSummary

\* ------------------------------------------------- export_library, up-front
poolVars == << plan_in, pool, queues, workers, tasks,
               processed, writes >>

\* mutant: the dry run reports a later item of an already listed path as
\* skipped
DryRunResults_Deduplicated(atts) ==
    [k \in 1..Len(atts) |->
        Result(k, FilterPath(atts[k]),
               IF \E j \in 1..(k - 1) : FilterPath(atts[j]) = FilterPath(atts[k])
               THEN "skipped" ELSE "dry-run")]

\* lines 140-149: one dry-run result per attachment, in source order
DryRunResults(atts) ==
    [k \in 1..Len(atts) |-> Result(k, FilterPath(atts[k]), "dry-run")]

\* lines 133-150: the empty list, the dry run, or on to the filter
ExportLibraryStart ==
    /\ package = "files2md"
    /\ pc = "start"
    /\ IF Len(attachments) = 0
       THEN /\ summary' = summarize_results(<<>>)
            /\ pc' = "done"
            /\ UNCHANGED << results, loop_idx >>
       ELSE IF settings.dry_run
       THEN /\ results' = DryRunResults(attachments)
            /\ summary' = summarize_results(results')
            /\ pc' = "done"
            /\ UNCHANGED loop_idx
       ELSE /\ pc' = "filter"
            /\ loop_idx' = 1
            /\ UNCHANGED << results, summary >>
    /\ UNCHANGED << inputVars, fs, dirs, seen_output_paths,
                    attachments_to_process >>
    /\ UNCHANGED poolVars

\* mutant: the filter drops a rejected item without recording an outcome
SynthSkipped_Dropped(rs, k, output_path) == rs

\* lines 164-170 and 175-181: results.append(ConversionResult(... "skipped"))
SynthSkipped(rs, k, output_path) ==
    Append(rs, Result(k, output_path, "skipped"))

\* line 184: seen_output_paths.add(output_path)
ClaimPath(seen, output_path) == seen \cup {output_path}

\* lines 155-185: one iteration of the dedup and skip-existing loop
FilterStep ==
    /\ pc = "filter"
    /\ loop_idx <= Len(attachments)
    /\ LET output_path == FilterPath(attachments[loop_idx])
       IN IF output_path \in seen_output_paths
          THEN /\ results' = SynthSkipped(results, loop_idx, output_path)
               /\ UNCHANGED << seen_output_paths, attachments_to_process >>
          ELSE IF output_path \in fs /\ ~settings.overwrite
          THEN /\ results' = SynthSkipped(results, loop_idx, output_path)
               /\ UNCHANGED << seen_output_paths, attachments_to_process >>
          ELSE /\ seen_output_paths' = ClaimPath(seen_output_paths, output_path)
               /\ attachments_to_process' =
                      Append(attachments_to_process, loop_idx)
               /\ UNCHANGED results
    /\ loop_idx' = loop_idx + 1
    /\ UNCHANGED << inputVars, fs, dirs, pc, summary >>
    /\ UNCHANGED poolVars

\* mutant: the early return for an empty work set is missing
NothingAccepted_NeverReturns(work) == FALSE

\* line 187: `if not attachments_to_process`
NothingAccepted(work) == work = <<>>

\* lines 187-189: nothing left to process
NothingToProcess ==
    /\ pc = "filter"
    /\ loop_idx > Len(attachments)
    /\ NothingAccepted(attachments_to_process)
    /\ summary' = summarize_results(results)
    /\ pc' = "done"
    /\ UNCHANGED << inputVars, fs, dirs, loop_idx, results,
                    seen_output_paths, attachments_to_process >>
    /\ UNCHANGED poolVars

\* ------------------------------------------------------ the worker pools
N == Len(attachments_to_process)

\* mutant: the initializer leaves CUDA_VISIBLE_DEVICES alone
_init_worker_Unset(gpu_id) == 0 - 1

\* _init_worker: the value CUDA_VISIBLE_DEVICES gets in a worker process
_init_worker(gpu_id) == gpu_id

\* _converter_local of a worker before its first render, and after
\* _reset_converter_cache: neither attribute is set
NoConverter == [built_with |-> "none", owner |-> 0]
NoCache == [key |-> "none", converter |-> NoConverter]

\* the worker processes of the per-accelerator ProcessPoolExecutors (one per
\* executor slot), or the threads of the single ThreadPoolExecutor
PoolWorkers(plan) ==
    IF plan.regime = "gpu"
    THEN [k \in 1..plan.total_workers |->
             [executor |-> plan.executor_slots[k],
              gpu |-> _init_worker(plan.executor_slots[k]),
              task |-> 0, cache |-> NoCache]]
    ELSE [k \in 1..plan.total_workers |->
             [executor |-> THREADS, gpu |-> NO_GPU, task |-> 0,
              cache |-> NoCache]]

PoolExecutors(plan) ==
    IF plan.regime = "gpu"
    THEN {plan.gpu_ids[k] : k \in 1..Len(plan.gpu_ids)}
    ELSE {THREADS}

\* mutant: the index is taken modulo the number of accelerators
RouteOf_ByAccelerator(plan, t) ==
    IF plan.regime = "gpu"
    THEN plan.gpu_ids[((t - 1) % Len(plan.gpu_ids)) + 1]
    ELSE THREADS

\* executor_slots[idx % total_workers] for the 0-based idx = t - 1
RouteOf(plan, t) ==
    IF plan.regime = "gpu"
    THEN plan.executor_slots[((t - 1) % plan.total_workers) + 1]
    ELSE THREADS

\* file_path: the item's temporary path, once _process_attachment chose it;
\* fetched: the downloaded file is at the item's temporary path;
\* downloads, attempts and freed are history: the byte-fetches made, every
\* _render_markdown call (its device and outcome, the cached key it found
\* and whether it built a converter) and the _free_torch_memory calls
NewTask == [st |-> "new", file_path |-> <<>>,
            downloads |-> 0, fetched |-> FALSE,
            attempts |-> <<>>, freed |-> 0,
            worker |-> 0, gpu |-> NO_GPU, result |-> NoResult]

\* what the accelerator runtime does when it is asked: torch cannot be
\* imported, the query raises, CUDA is unavailable (whatever device_count
\* would say), or CUDA is available with n devices
TorchEnvs ==
    {[kind |-> "no-torch", n |-> 0], [kind |-> "query-raises", n |-> 0]}
    \cup [kind : {"unavailable"}, n : 0..MaxGpu]
    \cup [kind : {"cuda"}, n : 1..MaxGpu]

\* mutant: device_count() is returned without asking is_available()
_detect_gpu_count_IgnoresAvailability(env) ==
    IF env.kind \in {"no-torch", "query-raises"} THEN 0 ELSE env.n

\* _detect_gpu_count, lines 290-298
_detect_gpu_count(env) ==
    IF env.kind = "no-torch" THEN 0
    ELSE IF env.kind = "query-raises" THEN 0
    ELSE IF env.kind = "cuda" THEN env.n ELSE 0

\* lines 191-248 and 262-273: shape and create the pool, max_workers and
\* workers_per_gpu being cap and W, and G and cpu what _detect_gpu_count()
\* (when it is asked) and os.cpu_count() return
StartPoolWith(cap, W, G, cpu) ==
    /\ pc = "filter"
    /\ loop_idx > Len(attachments)
    /\ ~NothingAccepted(attachments_to_process)
    /\ pool' = PoolPlan(N, settings.use_multi_gpu, cap, W, G, cpu)
    /\ workers' = PoolWorkers(pool')
    /\ queues' = [e \in PoolExecutors(pool') |-> <<>>]
    /\ tasks' = [t \in 1..N |-> NewTask]
    /\ processed' = [t \in 1..N |-> NoResult]
    /\ pc' = "submit"
    /\ loop_idx' = 1
    /\ UNCHANGED << inputVars, fs, dirs, results, seen_output_paths,
                    attachments_to_process, plan_in, writes, summary >>

StartPool ==
    /\ pc = "filter"
    /\ \E cap \in 0..MaxCap, W \in 1..MaxWpg, cpu \in 0..MaxCpu,
          G \in (IF settings.use_multi_gpu
                 THEN {_detect_gpu_count(env) : env \in TorchEnvs}
                 ELSE {0}) :
           StartPoolWith(cap, W, G, cpu)

\* lines 250-255 and 274-277: executor.submit of one work item
Submit ==
    /\ pc = "submit"
    /\ LET e == RouteOf(pool, loop_idx)
       IN queues' = [queues EXCEPT ![e] = Append(@, loop_idx)]
    /\ tasks' = [tasks EXCEPT ![loop_idx].st = "queued"]
    /\ loop_idx' = loop_idx + 1
    /\ pc' = IF loop_idx = N THEN "collect" ELSE "submit"
    /\ UNCHANGED << inputVars, fs, dirs, results, seen_output_paths,
                    attachments_to_process, plan_in, pool,
                    workers, processed, writes, summary >>

\* --------------------------------------------------- _process_attachment
mainVars == << inputVars, pc, loop_idx, results,
               seen_output_paths, attachments_to_process, plan_in,
               pool, processed, summary >>

Item(t) == attachments[attachments_to_process[t]]
Src(t) == attachments_to_process[t]
WritePath(t) == compute_output_path(Item(t), settings.reference_folder_name)

\* the call returns res: the future completes and the worker is free again
Return(w, t, res) ==
    /\ tasks' = [tasks EXCEPT ![t].st = "finished", ![t].result = res]
    /\ workers' = [workers EXCEPT ![w].task = 0]

Advance(t, st) == tasks' = [tasks EXCEPT ![t].st = st]

\* a free worker takes the oldest call of its executor; lines 353-361
WorkerStart(w) ==
    /\ workers[w].task = 0
    /\ queues[workers[w].executor] # <<>>
    /\ LET e == workers[w].executor
           t == Head(queues[e])
           output_path == FilterPath(Item(t))
           began == [tasks EXCEPT ![t].worker = w, ![t].gpu = workers[w].gpu]
       IN /\ queues' = [queues EXCEPT ![e] = Tail(@)]
          /\ IF output_path \in fs /\ ~settings.overwrite
             THEN /\ tasks' = [began EXCEPT
                                  ![t].st = "finished",
                                  ![t].result =
                                      Result(Src(t), output_path, "skipped")]
                  /\ UNCHANGED workers
             ELSE /\ tasks' = [began EXCEPT
                                  ![t].st = "download",
                                  ![t].file_path =
                                      _temp_path_for_attachment(Item(t))]
                  /\ workers' = [workers EXCEPT ![w].task = t]
    /\ UNCHANGED << fs, dirs, writes >>
    /\ UNCHANGED mainVars

\* mutant: a failed byte-fetch is tried once more
AfterDownloadFailure_TriesAgain(downloads) ==
    IF downloads < 2 THEN "retry" ELSE "give-up"

\* what _process_attachment does after _download_attachment raised, given
\* the byte-fetches made so far (lines 365-376)
AfterDownloadFailure(downloads) == "give-up"

\* lines 363-376: _download_attachment succeeds or raises
Download(w) ==
    /\ workers[w].task # 0
    /\ LET t == workers[w].task
           counted == [tasks EXCEPT ![t].downloads = @ + 1]
       IN /\ tasks[t].st = "download"
          /\ \E ok \in BOOLEAN :
                IF ok
                THEN /\ tasks' = [counted EXCEPT ![t].st = "convert",
                                                 ![t].fetched = TRUE]
                     /\ UNCHANGED workers
                ELSE IF AfterDownloadFailure(counted[t].downloads) = "retry"
                THEN /\ tasks' = counted
                     /\ UNCHANGED workers
                ELSE /\ tasks' = [counted EXCEPT
                                     ![t].st = "finished",
                                     ![t].result =
                                         Result(Src(t), FilterPath(Item(t)),
                                                "skipped")]
                     /\ workers' = [workers EXCEPT ![w].task = 0]
    /\ UNCHANGED << fs, dirs, queues, writes >>
    /\ UNCHANGED mainVars

\* mutant: the exception of convert_attachment_to_markdown is not caught
\* and becomes the exception of the future
OnConvertException_Propagates(src, output_path) ==
    Result(src, output_path, "raised")

\* exporter.py lines 380-388: an exception of
\* convert_attachment_to_markdown is logged and replaced by a skipped result
OnConvertException(src, output_path) == Result(src, output_path, "skipped")

\* converter.py lines 43-69: resolve the path, skip an existing file, create
\* the directory (an OSError propagates to exporter.py lines 380-388)
ConvertBegin(w) ==
    /\ workers[w].task # 0
    /\ LET t == workers[w].task
       IN /\ tasks[t].st = "convert"
          /\ IF WritePath(t) \in fs /\ ~settings.overwrite
             THEN /\ Return(w, t, Result(Src(t), WritePath(t), "skipped"))
                  /\ UNCHANGED dirs
             ELSE \E mkdir_ok \in BOOLEAN :
                     IF mkdir_ok
                     THEN /\ dirs' = dirs \cup {WritePath(t)[1]}
                          /\ Advance(t, "render") /\ UNCHANGED workers
                     ELSE /\ UNCHANGED dirs
                          /\ Return(w, t, OnConvertException(
                                              Src(t), FilterPath(Item(t))))
    /\ UNCHANGED << fs, queues, writes >>
    /\ UNCHANGED mainVars

\* _resolve_docling_device: CUDA when multi-GPU is on and CUDA is available
\* in the worker, which is when _detect_gpu_count() found an accelerator
_resolve_docling_device ==
    IF ~settings.use_multi_gpu THEN "auto"
    ELSE IF pool.regime = "gpu" THEN "cuda" ELSE "auto"

RenderOutcomes == {"ok", "oom", "error"}

\* mutant: a cached converter is reused whatever key it was built with
CacheLookup_KeyIgnored(w, cache, cache_key) ==
    IF cache.converter = NoConverter
    THEN [cache |-> [key |-> cache_key,
                     converter |-> [built_with |-> cache_key, owner |-> w]],
          built |-> TRUE]
    ELSE [cache |-> cache, built |-> FALSE]

\* converter.py lines 179-201 on worker w: the cache after the lookup and
\* whether a DocumentConverter was constructed.  The first three parts of
\* cache_key are fields of the frozen settings and the same in every call
\* of a run, so that a key is identified by its device.
CacheLookup(w, cache, cache_key) ==
    IF cache.converter = NoConverter \/ cache.key # cache_key
    THEN [cache |-> [key |-> cache_key,
                     converter |-> [built_with |-> cache_key, owner |-> w]],
          built |-> TRUE]
    ELSE [cache |-> cache, built |-> FALSE]

\* one _render_markdown call of worker w for work item t on `device`
\* ending in `outcome`: the history entry and the worker's cache afterwards
Invoke(w, t, device, outcome) ==
    LET found == CacheLookup(w, workers[w].cache, device)
    IN [attempt |-> [device |-> device, outcome |-> outcome,
                     had |-> workers[w].cache.key, built |-> found.built,
                     used |-> found.cache.converter],
        cache |-> found.cache]

\* mutant: the cached converter survives the out-of-memory error
_reset_converter_cache_Keeps(cache) == cache

\* _reset_converter_cache: both attributes are deleted
_reset_converter_cache(cache) == NoCache

\* mutant: every failed first render is retried on the CPU
AfterFirstFailure_AlwaysRetries(outcome) == "retry"

\* what convert_attachment_to_markdown does after a failed first render:
\* "retry" or "give-up" (converter.py lines 73-105)
AfterFirstFailure(outcome) == IF outcome = "oom" THEN "retry" ELSE "give-up"

\* converter.py lines 71-72: the first _render_markdown call
Render(w) ==
    /\ workers[w].task # 0
    /\ LET t == workers[w].task
       IN /\ tasks[t].st = "render"
          /\ \E outcome \in RenderOutcomes :
                LET call == Invoke(w, t, _resolve_docling_device, outcome)
                    invoked == [tasks EXCEPT
                                   ![t].attempts = Append(@, call.attempt)]
                IN
                IF outcome = "ok"
                THEN /\ tasks' = [invoked EXCEPT ![t].st = "write"]
                     /\ workers' = [workers EXCEPT ![w].cache = call.cache]
                ELSE IF AfterFirstFailure(outcome) = "retry"
                THEN /\ tasks' = [invoked EXCEPT ![t].st = "retry",
                                                 ![t].freed = @ + 1]
                     /\ workers' =
                            [workers EXCEPT
                                ![w].cache = _reset_converter_cache(call.cache)]
                ELSE /\ tasks' = [invoked EXCEPT
                                     ![t].st = "finished",
                                     ![t].result =
                                         Result(Src(t), WritePath(t), "skipped")]
                     /\ workers' = [workers EXCEPT ![w].task = 0,
                                                   ![w].cache = call.cache]
    /\ UNCHANGED << fs, dirs, queues, writes >>
    /\ UNCHANGED mainVars

\* mutant: an out-of-memory error of the retry is retried again
AfterRetryFailure_RetriesOom(outcome) ==
    IF outcome = "oom" THEN "retry" ELSE "give-up"

\* what happens after a failed CPU retry (converter.py lines 87-98)
AfterRetryFailure(outcome) == "give-up"

\* converter.py lines 79-98: the retry with device = AcceleratorDevice.CPU
RetryOnCpu(w) ==
    /\ workers[w].task # 0
    /\ LET t == workers[w].task
       IN /\ tasks[t].st = "retry"
          /\ \E outcome \in RenderOutcomes :
                LET call == Invoke(w, t, "cpu", outcome)
                    invoked == [tasks EXCEPT
                                   ![t].attempts = Append(@, call.attempt)]
                IN
                IF outcome = "ok"
                THEN /\ tasks' = [invoked EXCEPT ![t].st = "write"]
                     /\ workers' = [workers EXCEPT ![w].cache = call.cache]
                ELSE IF AfterRetryFailure(outcome) = "retry"
                THEN /\ tasks' = [invoked EXCEPT ![t].st = "retry"]
                     /\ workers' = [workers EXCEPT ![w].cache = call.cache]
                ELSE /\ tasks' = [invoked EXCEPT
                                     ![t].st = "finished",
                                     ![t].result =
                                         Result(Src(t), WritePath(t), "skipped")]
                     /\ workers' = [workers EXCEPT ![w].task = 0,
                                                   ![w].cache = call.cache]
    /\ UNCHANGED << fs, dirs, queues, writes >>
    /\ UNCHANGED mainVars

\* converter.py lines 106-120: output_path.write_bytes succeeds or raises
Write(w) ==
    /\ workers[w].task # 0
    /\ LET t == workers[w].task
       IN /\ tasks[t].st = "write"
          /\ \E ok \in BOOLEAN :
                IF ok
                THEN /\ fs' = fs \cup {WritePath(t)}
                     /\ UNCHANGED dirs
                     /\ writes' = writes \cup {<<t, WritePath(t)>>}
                     /\ Return(w, t, Result(Src(t), WritePath(t), "converted"))
                ELSE /\ UNCHANGED << fs, dirs, writes >>
                     /\ Return(w, t, Result(Src(t), WritePath(t), "skipped"))
    /\ UNCHANGED queues
    /\ UNCHANGED mainVars

\* exporter.py lines 126-284: the TemporaryDirectory of the run exists inside
\* its with block, which export_library enters first and leaves, by return or
\* by exception, after the executors' with blocks
temp_dir_exists == pc \notin {"done", "raised"}

\* ------------------------------------------------ export_library, the end
\* lines 257-258 and 279-280: as_completed hands over one finished future;
\* future.result() raises what the call raised, out of export_library
Collect(t) ==
    /\ pc = "collect"
    /\ tasks[t].st = "finished"
    /\ IF tasks[t].result.status = "raised"
       THEN pc' = "raised" /\ UNCHANGED processed
       ELSE /\ processed' = [processed EXCEPT ![t] = tasks[t].result]
            /\ UNCHANGED pc
    /\ tasks' = [tasks EXCEPT ![t].st = "collected"]
    /\ UNCHANGED << inputVars, fs, dirs, loop_idx, results,
                    seen_output_paths, attachments_to_process, plan_in,
                    pool, queues, workers, writes, summary >>

\* mutant: the workers' outcomes are put in front of the filter's
extend_results_InFront(rs, done) ==
    SelectSeq(done, LAMBDA r : r.status # "none") \o rs

\* lines 260 and 282: results.extend([r for r in processed if r is not None])
extend_results(rs, done) ==
    rs \o SelectSeq(done, LAMBDA r : r.status # "none")

\* lines 260, 282 and 284: every future was handed over
Finish ==
    /\ pc = "collect"
    /\ \A t \in 1..N : tasks[t].st = "collected"
    /\ results' = extend_results(results, processed)
    /\ summary' = summarize_results(results')
    /\ pc' = "done"
    /\ UNCHANGED << inputVars, fs, dirs, loop_idx, seen_output_paths,
                    attachments_to_process, plan_in, pool,
                    queues, workers, tasks, processed, writes >>

\* ----------------------------------------- zotero_pdf2md export_library
\* tasks[k] is the download and the conversion of attachments[k]
pdf2md_summarize_results(rs) ==
    [processed |-> Len(rs),
     converted |-> Count(rs, "converted"),
     skipped |-> Count(rs, "skipped"),
     dry_run |-> Count(rs, "dry-run"),
     output_paths |-> [k \in 1..Len(rs) |-> rs[k].output]]

DOWNLOAD_CAP == 8

\* lines 60-61; cap = 0 is max_workers = None
download_workers(cap, total_attachments) ==
    Max(1, IF cap # 0 THEN cap ELSE Min(DOWNLOAD_CAP, total_attachments))

PdfPath(k) == pdf2md_compute_output_path(attachments[k])

pdfFixed == << inputVars, seen_output_paths, attachments_to_process,
               plan_in, queues, workers, processed >>

\* lines 45-73: the empty list, on to the dry run, or submit every download
PdfExportLibraryStart ==
    /\ package = "pdf2md"
    /\ pc = "start"
    /\ IF Len(attachments) = 0
       THEN /\ summary' = pdf2md_summarize_results(<<>>)
            /\ pc' = "done"
            /\ UNCHANGED << loop_idx, pool, tasks >>
       ELSE IF settings.dry_run
       THEN /\ pc' = "dry-run"
            /\ loop_idx' = 1
            /\ UNCHANGED << summary, pool, tasks >>
       ELSE /\ \E cap \in 0..MaxCap :
                  pool' = [NoPlan EXCEPT
                              !.regime = "download-threads",
                              !.total_workers =
                                  download_workers(cap, Len(attachments))]
            /\ tasks' = [k \in 1..Len(attachments) |->
                            [NewTask EXCEPT !.st = "queued"]]
            /\ pc' = "downloads"
            /\ UNCHANGED << summary, loop_idx >>
    /\ UNCHANGED << fs, dirs, results, writes >>
    /\ UNCHANGED pdfFixed

\* lines 53-58 with converter.py lines 37-59: one iteration of the dry run;
\* an OSError of ensure_directory propagates out of export_library
PdfDryRunStep ==
    /\ pc = "dry-run"
    /\ \E mkdir_ok \in BOOLEAN :
          IF ~mkdir_ok
          THEN /\ pc' = "raised"
               /\ UNCHANGED << results, summary, loop_idx, dirs >>
          ELSE /\ dirs' = dirs \cup {PdfPath(loop_idx)[1]}
               /\ results' =
                      Append(results,
                             Result(loop_idx, PdfPath(loop_idx),
                                    IF PdfPath(loop_idx) \in fs
                                       /\ ~settings.overwrite
                                    THEN "skipped" ELSE "dry-run"))
               /\ IF loop_idx = Len(attachments)
                  THEN /\ summary' = pdf2md_summarize_results(results')
                       /\ pc' = "done"
                       /\ UNCHANGED loop_idx
                  ELSE /\ loop_idx' = loop_idx + 1
                       /\ UNCHANGED << summary, pc >>
    /\ UNCHANGED << fs, pool, tasks, writes >>
    /\ UNCHANGED pdfFixed

Downloading == {k \in 1..Len(tasks) : tasks[k].st = "download"}

\* a free download thread takes a submitted download_and_save call
PdfDownloadStart(k) ==
    /\ pool.regime = "download-threads"
    /\ tasks[k].st = "queued"
    /\ Cardinality(Downloading) < pool.total_workers
    /\ Advance(k, "download")
    /\ UNCHANGED << fs, dirs, results, summary, pc, loop_idx, pool, writes >>
    /\ UNCHANGED pdfFixed

\* download_and_save returns or raises
PdfDownloadEnd(k) ==
    /\ pool.regime = "download-threads"
    /\ tasks[k].st = "download"
    /\ \E ok \in BOOLEAN :
          tasks' = [tasks EXCEPT
                       ![k].downloads = @ + 1,
                       ![k].fetched = ok,
                       ![k].st = IF ok THEN "downloaded"
                                 ELSE "download-failed"]
    /\ UNCHANGED << fs, dirs, results, summary, pc, loop_idx, pool, writes >>
    /\ UNCHANGED pdfFixed

\* lines 76-98: as_completed hands over one download; a failed one is
\* logged and left out, a good one is submitted for conversion
PdfCollectDownload(k) ==
    /\ pc = "downloads"
    /\ tasks[k].st \in {"downloaded", "download-failed"}
    /\ Advance(k, IF tasks[k].st = "downloaded" THEN "convert-queued"
                  ELSE "dropped")
    /\ UNCHANGED << fs, dirs, results, summary, pc, loop_idx, pool, writes >>
    /\ UNCHANGED pdfFixed

DownloadPending ==
    {k \in 1..Len(tasks) :
        tasks[k].st \in {"queued", "download", "downloaded", "download-failed"}}

\* lines 100-103: every download was handed over
PdfDownloadsDone ==
    /\ pc = "downloads"
    /\ DownloadPending = {}
    /\ IF \A k \in 1..Len(tasks) : tasks[k].st = "dropped"
       THEN /\ summary' = pdf2md_summarize_results(results)
            /\ pc' = "done"
       ELSE /\ pc' = "conversions"
            /\ UNCHANGED summary
    /\ UNCHANGED << fs, dirs, results, loop_idx, pool, tasks, writes >>
    /\ UNCHANGED pdfFixed

\* converter.py lines 37-63 in a process of the conversion pool:
\* ensure_directory raises, or the existing file is skipped, or on to render
PdfConvertBegin(k) ==
    /\ pool.regime = "download-threads"
    /\ tasks[k].st = "convert-queued"
    /\ \E mkdir_ok \in BOOLEAN :
          IF ~mkdir_ok THEN Advance(k, "raised") /\ UNCHANGED dirs
          ELSE /\ dirs' = dirs \cup {PdfPath(k)[1]}
               /\ IF PdfPath(k) \in fs /\ ~settings.overwrite
                  THEN tasks' = [tasks EXCEPT
                                    ![k].st = "finished",
                                    ![k].result =
                                        Result(k, PdfPath(k), "skipped")]
                  ELSE Advance(k, "render")
    /\ UNCHANGED << fs, results, summary, pc, loop_idx, pool, writes >>
    /\ UNCHANGED pdfFixed

\* converter.py lines 65-80: _render_markdown and write_bytes in one try
PdfRenderAndWrite(k) ==
    /\ pool.regime = "download-threads"
    /\ tasks[k].st = "render"
    /\ \E outcome \in RenderOutcomes, write_ok \in BOOLEAN :
          LET invoked == [tasks EXCEPT ![k].attempts =
                             Append(@, [device |-> "auto",
                                        outcome |-> outcome,
                                        had |-> "none", built |-> TRUE,
                                        used |-> NoConverter])]
          IN IF outcome = "ok" /\ write_ok
             THEN /\ fs' = fs \cup {PdfPath(k)}
                  /\ UNCHANGED dirs
                  /\ writes' = writes \cup {<<k, PdfPath(k)>>}
                  /\ tasks' = [invoked EXCEPT
                                   ![k].st = "finished",
                                   ![k].result =
                                       Result(k, PdfPath(k), "converted")]
             ELSE /\ UNCHANGED << fs, dirs, writes >>
                  /\ tasks' = [invoked EXCEPT
                                   ![k].st = "finished",
                                   ![k].result =
                                       Result(k, PdfPath(k), "skipped")]
    /\ UNCHANGED << results, summary, pc, loop_idx, pool >>
    /\ UNCHANGED pdfFixed

\* lines 105-119: as_completed hands over one conversion; its result is
\* appended, or its exception is logged and the item is left out
PdfCollectConversion(k) ==
    /\ pc = "conversions"
    /\ tasks[k].st \in {"finished", "raised"}
    /\ IF tasks[k].st = "finished"
       THEN /\ results' = Append(results, tasks[k].result)
            /\ Advance(k, "collected")
       ELSE /\ Advance(k, "dropped")
            /\ UNCHANGED results
    /\ UNCHANGED << fs, dirs, summary, pc, loop_idx, pool, writes >>
    /\ UNCHANGED pdfFixed

\* line 121: every conversion was handed over
PdfFinish ==
    /\ pc = "conversions"
    /\ \A k \in 1..Len(tasks) : tasks[k].st \in {"collected", "dropped"}
    /\ summary' = pdf2md_summarize_results(results)
    /\ pc' = "done"
    /\ UNCHANGED << fs, dirs, results, loop_idx, pool, tasks, writes >>
    /\ UNCHANGED pdfFixed

WorkerIds == 1..Len(workers)

FilesNext ==
    \/ ExportLibraryStart
    \/ FilterStep
    \/ NothingToProcess
    \/ StartPool
    \/ Submit
    \/ \E w \in WorkerIds : WorkerStart(w)
    \/ \E w \in WorkerIds : Download(w)
    \/ \E w \in WorkerIds : ConvertBegin(w)
    \/ \E w \in WorkerIds : Render(w)
    \/ \E w \in WorkerIds : RetryOnCpu(w)
    \/ \E w \in WorkerIds : Write(w)
    \/ \E t \in 1..Len(tasks) : Collect(t)
    \/ Finish

PdfNext ==
    \/ PdfExportLibraryStart
    \/ PdfDryRunStep
    \/ \E k \in 1..Len(tasks) : PdfDownloadStart(k)
    \/ \E k \in 1..Len(tasks) : PdfDownloadEnd(k)
    \/ \E k \in 1..Len(tasks) : PdfCollectDownload(k)
    \/ PdfDownloadsDone
    \/ \E k \in 1..Len(tasks) : PdfConvertBegin(k)
    \/ \E k \in 1..Len(tasks) : PdfRenderAndWrite(k)
    \/ \E k \in 1..Len(tasks) : PdfCollectConversion(k)
    \/ PdfFinish

Next == FilesNext \/ PdfNext

Spec == Init /\ [][Next]_vars

\* ------------------------------------------------- the pool plan, alone
\* The plan of lines 196-215 and 262-263 as a function of its inputs, over a
\* larger range of inputs than the export runs above reach.
PlanInputs ==
    [n : 1..MaxWork, use_multi_gpu : BOOLEAN, max_workers : 0..MaxCap,
     workers_per_gpu : 1..MaxWpg, gpu_count : 0..MaxGpu,
     cpu_count : 0..MaxCpu]

InitPool ==
    /\ package = "files2md"
    /\ settings \in {s \in SettingsSpace :
                        ~s.dry_run /\ s.overwrite
                        /\ s.reference_folder_name = "citation-key"}
    /\ plan_in \in {i \in PlanInputs : i.use_multi_gpu = settings.use_multi_gpu}
    /\ attachments = <<>>
    /\ args = NoCall
    /\ ret = NoCall
    /\ fs = {}
    /\ dirs = {}
    /\ pc = "plan"
    /\ loop_idx = 0
    /\ results = <<>>
    /\ seen_output_paths = {}
    /\ attachments_to_process = <<>>
    /\ pool = NoPlan
    /\ queues = <<>>
    /\ workers = <<>>
    /\ tasks = <<>>
    /\ processed = <<>>
    /\ writes = {}
    /\ summary = NoSummary

PlanPool ==
    /\ pc = "plan"
    /\ pool' = PoolPlan(plan_in.n, plan_in.use_multi_gpu, plan_in.max_workers,
                        plan_in.workers_per_gpu,
                        IF plan_in.use_multi_gpu THEN plan_in.gpu_count ELSE 0,
                        plan_in.cpu_count)
    /\ pc' = "planned"
    /\ UNCHANGED << inputVars, fs, dirs, loop_idx, results, seen_output_paths,
                    attachments_to_process, plan_in, queues, workers, tasks,
                    processed, writes, summary >>

NextPool == PlanPool

SpecPool == InitPool /\ [][NextPool]_vars

\* ------------------------------------- runs beside an external writer
\* Another program creates files under the output directory while
\* zotero_files2md export_library runs with overwrite off.  Its creations
\* are entered in `writes` under the writer id EXTERNAL.
EXTERNAL == 0

ExternalCreations == {w \in writes : w[1] = EXTERNAL}

InitExt ==
    /\ Init
    /\ package = "files2md"
    /\ ~settings.dry_run /\ ~settings.overwrite
    /\ settings.reference_folder_name = "citation-key"
    /\ fs = {}

ExternalCreate(p) ==
    /\ pc \notin {"done", "raised"}
    /\ p \notin fs
    /\ Cardinality(ExternalCreations) < MaxExternal
    /\ fs' = fs \cup {p}
    /\ dirs' = dirs \cup {p[1]}
    /\ writes' = writes \cup {<<EXTERNAL, p>>}
    /\ UNCHANGED << inputVars, pc, loop_idx, results, seen_output_paths,
                    attachments_to_process, plan_in, pool, queues, workers,
                    tasks, processed, summary >>

NextExt ==
    \/ FilesNext
    \/ \E p \in AllPaths : ExternalCreate(p)

SpecExt == InitExt /\ [][NextExt]_vars

\* ------------------------------- zotero_pdf2md with skip_existing set
InitSkip ==
    /\ package = "pdf2md"
    /\ settings \in {[s EXCEPT !.skip_existing = TRUE] : s \in PdfSettingsSpace}
    /\ attachments \in ItemLists
    /\ fs \in {F \in SUBSET RunPaths(package, settings, attachments) :
                   Cardinality(F) <= MaxExisting}
    /\ dirs = {p[1] : p \in fs}
    /\ pc = "start"
    /\ loop_idx = 0
    /\ results = <<>>
    /\ seen_output_paths = {}
    /\ attachments_to_process = <<>>
    /\ plan_in = NoPlanIn
    /\ pool = NoPlan
    /\ args = NoCall
    /\ ret = NoCall
    /\ queues = <<>>
    /\ workers = <<>>
    /\ tasks = <<>>
    /\ processed = <<>>
    /\ writes = {}
    /\ summary = NoSummary

SpecSkip == InitSkip /\ [][PdfNext]_vars

\* ------------------------------------- functions called on their own
\* A function of the package is called once with arguments drawn from a
\* bounded set; no export run is under way.
runVars == << package, settings, attachments, fs, dirs, pc, loop_idx, results,
              seen_output_paths, attachments_to_process, plan_in,
              pool, queues, workers, tasks, processed, writes, summary >>

NoRun ==
    /\ package = "none"
    /\ settings = [dry_run |-> FALSE, overwrite |-> FALSE,
                   reference_folder_name |-> "citation-key",
                   use_multi_gpu |-> FALSE, skip_existing |-> FALSE]
    /\ attachments = <<>>
    /\ fs = {}
    /\ dirs = {}
    /\ pc = "call"
    /\ loop_idx = 0
    /\ results = <<>>
    /\ seen_output_paths = {}
    /\ attachments_to_process = <<>>
    /\ plan_in = NoPlanIn
    /\ pool = NoPlan
    /\ queues = <<>>
    /\ workers = <<>>
    /\ tasks = <<>>
    /\ processed = <<>>
    /\ writes = {}
    /\ summary = NoSummary

Returned(value) == [st |-> "returned", value |-> value]
Raised(error) == [st |-> "raised", error |-> error]

\* ---------------------------------------------- compute_output_path, alone
\* AttachmentMetadata values: every optional field is None, or a text that
\* cleans to nothing, or a text that cleans to a slug
PathAttachments ==
    [attachment_key : {<<"k", "1">>},
     parent_item_key : {<<>>, <<"p", "1">>},
     title : {<<>>, <<"/">>, <<"a", " ", "b">>},
     parent_title : {<<>>, <<".">>, <<"t", " ", "1">>},
     parent_citation_key : {<<>>, <<"/", "/">>, <<"c">>}]

InitPath ==
    /\ NoRun
    /\ args \in [attachment : PathAttachments,
                 reference_folder_name : Strategies]
    /\ ret = NoCall

CallComputeOutputPath ==
    /\ ret = NoCall
    /\ ret' = Returned(compute_output_path(args.attachment,
                                           args.reference_folder_name))
    /\ UNCHANGED << runVars, args >>

SpecPath == InitPath /\ [][CallComputeOutputPath]_vars

\* ------------------------------------------- iter_attachments, alone
\* ZoteroClient.iter_attachments of zotero_files2md and iter_pdf_attachments
\* of zotero_pdf2md are the same generator but for the content-type filter.
\* An item of the remote: its key, its parentItem (0: none), whether
\* _is_downloadable_attachment and the content-type filter let it through,
\* its collections and its tags.
R1 == [key |-> 1, parentItem |-> 1, importable |-> TRUE,
       collections |-> {1}, tags |-> {}]
R2 == [key |-> 2, parentItem |-> 1, importable |-> TRUE,
       collections |-> {1, 2}, tags |-> {"x"}]
R3 == [key |-> 3, parentItem |-> 0, importable |-> FALSE,
       collections |-> {2}, tags |-> {"x"}]
R4 == [key |-> 4, parentItem |-> 2, importable |-> TRUE,
       collections |-> {2}, tags |-> {"x"}]
\* the remote sorts its listings by modification date: an item modified
\* while it is paged through is listed again further on
R5 == R1
RemoteItems == << R1, R2, R3, R4, R5 >>

RECURSIVE SelectSeq2(_, _, _)
\* the items of seq at the positions in ks, in the order of seq
SelectSeq2(seq, ks, k) ==
    IF k > Len(seq) THEN <<>>
    ELSE (IF k \in ks THEN << seq[k] >> ELSE <<>>) \o SelectSeq2(seq, ks, k + 1)

Remotes ==
    {SelectSeq2(RemoteItems, ks, 1) :
        ks \in {K \in SUBSET (1..Len(RemoteItems)) : Cardinality(K) <= MaxRemote}}

\* what the remote lists for a collection key (0 is None: the whole library)
Listing(remote, collection_key) ==
    SelectSeq2(remote,
               {k \in 1..Len(remote) :
                   collection_key = 0 \/ collection_key \in remote[k].collections},
               1)

\* self._client.items / collection_items with limit and start
Page(listing, start, limit) ==
    SubSeq(listing, start + 1, Min(start + limit, Len(listing)))

IterInputs ==
    [package : {"files2md", "pdf2md"},
     remote : Remotes,
     limit : 0..MaxLimit,                  \* 0 is None
     chunk_size : 1..MaxChunk,
     collections_to_fetch : {<< 0 >>, << 1, 2 >>, << 2, 1 >>},
     tag_filters : {{}, {"x"}}]

InitIter ==
    /\ NoRun
    /\ args \in IterInputs
    /\ ret = NoCall

\* the first next() enters the generator: lines 63-77
IterStart ==
    /\ ret = NoCall
    /\ ret' = [st |-> "page", coll |-> 1, start |-> 0, batch |-> <<>>,
               i |-> 0, yielded |-> 0, seen_keys |-> {},
               parent_cache |-> {}, requests |-> <<>>, out |-> <<>>,
               requests_at_yield |-> <<>>]
    /\ UNCHANGED << runVars, args >>

\* lines 78-101: one page is requested; an empty page ends the collection
IterRequestPage ==
    /\ ret.st = "page"
    /\ LET ck == args.collections_to_fetch[ret.coll]
           batch == Page(Listing(args.remote, ck), ret.start, args.chunk_size)
           asked == [ret EXCEPT !.requests = Append(@, << "page", ck, ret.start >>)]
       IN ret' = IF batch # <<>>
                 THEN [asked EXCEPT !.st = "item", !.batch = batch, !.i = 1]
                 ELSE IF ret.coll < Len(args.collections_to_fetch)
                 THEN [asked EXCEPT !.coll = @ + 1, !.start = 0]
                 ELSE [asked EXCEPT !.st = "returned"]
    /\ UNCHANGED << runVars, args >>

\* mutant: the offset is not advanced after a page
NextItem_StartStays(frame) ==
    IF frame.i < Len(frame.batch)
    THEN [frame EXCEPT !.st = "item", !.i = @ + 1]
    ELSE [frame EXCEPT !.st = "page"]

\* the for loop goes to its next item, or line 176 and the next page
NextItem(frame) ==
    IF frame.i < Len(frame.batch)
    THEN [frame EXCEPT !.st = "item", !.i = @ + 1]
    ELSE [frame EXCEPT !.st = "page", !.start = @ + Len(frame.batch)]

\* mutant: no key is recognised as seen before
AlreadySeen_Never(key, seen_keys) == FALSE

\* line 106: key in seen_keys
AlreadySeen(key, seen_keys) == key \in seen_keys

\* lines 104-171: one item of the batch is skipped or yielded
IterItem ==
    /\ ret.st = "item"
    /\ LET item == ret.batch[ret.i]
           seen == [ret EXCEPT !.seen_keys = @ \cup {item.key}]
           fetched ==
               IF item.parentItem # 0 /\ item.parentItem \notin ret.parent_cache
               THEN [seen EXCEPT
                        !.requests = Append(@, << "parent", item.parentItem, 0 >>),
                        !.parent_cache = @ \cup {item.parentItem}]
               ELSE seen
       IN ret' =
            IF AlreadySeen(item.key, ret.seen_keys) THEN NextItem(ret)
            ELSE IF ~item.importable THEN NextItem(seen)
            ELSE IF args.tag_filters # {}
                    /\ item.tags \cap args.tag_filters = {}
            THEN NextItem(fetched)
            ELSE [fetched EXCEPT
                     !.st = "suspended",
                     !.out = Append(@, item.key),
                     !.requests_at_yield = Append(@, Len(fetched.requests))]
    /\ UNCHANGED << runVars, args >>

\* mutant: the limit is tested before the count is raised
LimitReached_OneLate(limit, yielded) == limit # 0 /\ yielded > limit

\* line 173: self.settings.limit and yielded >= self.settings.limit
LimitReached(limit, yielded) == limit # 0 /\ yielded >= limit

\* lines 171-174: the next next() resumes after the yield
IterResume ==
    /\ ret.st = "suspended"
    /\ LET counted == [ret EXCEPT !.yielded = @ + 1]
       IN ret' = IF LimitReached(args.limit, counted.yielded)
                 THEN [counted EXCEPT !.st = "returned"]
                 ELSE NextItem(counted)
    /\ UNCHANGED << runVars, args >>

NextIter == IterStart \/ IterRequestPage \/ IterItem \/ IterResume

SpecIter == InitIter /\ [][NextIter]_vars

\* the consumer of the generator keeps asking for the next item and the
\* remote answers every request
SpecIterFair == SpecIter /\ WF_vars(NextIter)

\* ----------------------------------------------------- slugify, alone
\* every text of at most MaxLen characters over an alphabet with a letter,
\* the three punctuation marks slugs keep, white space and an accented
\* letter, and two texts longer than the slug limit
SlugAlphabet == {"a", "-", ".", " ", "e'"}

ShortTexts ==
    UNION {[1..n -> SlugAlphabet] : n \in 0..MaxLen}

LongTexts ==
    {[j \in 1..(SLUG_MAX + 1) |-> "a"],
     [j \in 1..(SLUG_MAX + 2) |-> IF j = 2 THEN " " ELSE "a"]}

\* fallbacks: an item key, a text that cleans to nothing, a text with
\* characters no slug has, a text longer than the slug limit
SlugFallbacks ==
    {<<"k", "1">>, <<"/">>, <<"a", " ", "b">>, <<"e'">>} \cup LongTexts

InitSlug ==
    /\ NoRun
    /\ args \in [package : {"files2md", "pdf2md"},
                 value : ShortTexts \cup LongTexts,      \* <<>> is also None
                 fallback : SlugFallbacks]
    /\ ret = NoCall

CallSlugify ==
    /\ ret = NoCall
    /\ args.package = "files2md"
    /\ ret' = Returned(slugify(args.value, args.fallback))
    /\ UNCHANGED << runVars, args >>

CallPdfSlugify ==
    /\ ret = NoCall
    /\ args.package = "pdf2md"
    /\ ret' = Returned(pdf2md_slugify(args.value, args.fallback))
    /\ UNCHANGED << runVars, args >>

NextSlug == CallSlugify \/ CallPdfSlugify

SpecSlug == InitSlug /\ [][NextSlug]_vars

\* -------------------------------------- ExportSettings(...), alone
\* An optional integer is <<>> (None) or <<n>>.
OptInts == {<<>>} \cup {<< n >> : n \in (0 - 1)..MaxSetting}

\* str.lower() on the letters the inputs use
Lower(text) ==
    [j \in 1..Len(text) |->
        CASE text[j] = "D" -> "d"
          [] text[j] = "P" -> "p"
          [] OTHER -> text[j]]

ImageProcessingValues ==
    {<<"e", "m", "b", "e", "d">>, <<"p", "l", "a", "c", "e", "h", "o", "l", "d", "e", "r">>,
     <<"d", "r", "o", "p">>}

\* the keyword arguments of a constructor call; reference_folder_name is
\* "absent" when the keyword is not passed
SettingsKwargs ==
    [api_key : {<<>>, <<" ">>, <<" ", "a", " ">>},
     library_id : {<<" ">>, <<" ", "1">>},
     library_type : {"user", "group", "org"},
     limit : OptInts,
     chunk_size : (0 - 1)..MaxSetting,
     max_workers : OptInts,
     workers_per_gpu : (0 - 1)..MaxSetting,
     image_processing : {<<"e", "m", "b", "e", "d">>, <<" ", "D", "r", "o", "p">>,
                         <<"P", "l", "a", "c", "e", "h", "o", "l", "d", "e", "r", " ">>,
                         <<"d", "r">>},
     reference_folder_name : {"absent", "citation-key", "unknown"}]

\* ExportSettings.__post_init__, lines 82-124
post_init(kw) ==
    LET api_key == Strip(kw.api_key, Whitespace)
        library_id == Strip(kw.library_id, Whitespace)
        image_processing == Lower(Strip(kw.image_processing, Whitespace))
    IN IF api_key = <<>> THEN Raised("ValueError")
       ELSE IF library_id = <<>> THEN Raised("ValueError")
       ELSE IF kw.library_type \notin {"user", "group"} THEN Raised("ValueError")
       ELSE IF kw.limit # <<>> /\ kw.limit[1] <= 0 THEN Raised("ValueError")
       ELSE IF kw.chunk_size <= 0 THEN Raised("ValueError")
       ELSE IF kw.max_workers # <<>> /\ kw.max_workers[1] <= 0
       THEN Raised("ValueError")
       ELSE IF kw.workers_per_gpu <= 0 THEN Raised("ValueError")
       ELSE IF image_processing \notin ImageProcessingValues
       THEN Raised("ValueError")
       ELSE Returned([kw EXCEPT !.api_key = api_key,
                                !.library_id = library_id,
                                !.image_processing = image_processing])

\* the dataclass of lines 54-80 has no field reference_folder_name: its
\* generated __init__ rejects the keyword with TypeError before
\* __post_init__ runs
ExportSettings(kw) ==
    IF kw.reference_folder_name # "absent" THEN Raised("TypeError")
    ELSE post_init(kw)

InitSettings ==
    /\ NoRun
    /\ args \in SettingsKwargs
    /\ ret = NoCall

CallExportSettings ==
    /\ ret = NoCall
    /\ ret' = ExportSettings(args)
    /\ UNCHANGED << runVars, args >>

SpecSettings == InitSettings /\ [][CallExportSettings]_vars

\* ------------------------------ parse_collection_output_pairs, alone
\* the strings of a call: blank ones, ones without "=", without key,
\* without directory, padded ones, a directory with "=" in it, and pairs of
\* two different keys
PairTexts ==
    {<<>>, <<" ">>, <<"k">>, <<"=">>, <<"=", "o">>, <<"k", "=">>,
     <<"k", " ", "=", " ">>, <<"k", "=", "o">>, <<" ", "k", " ", "=", " ", "o", " ">>,
     <<"j", "=", "o">>, <<"k", "=", "p">>, <<"j", "=", "o", "=", "p">>}

PairLists == UNION {[1..n -> PairTexts] : n \in 0..MaxPairs}

\* Path(text)
Path(text) == [path |-> text]

\* lines 28-44 for one item: "blank" (skipped), "error", or the pair
ParseEntry(item) ==
    LET raw == Strip(item, Whitespace)
        eq == FirstAt(raw, 1, {"="}, TRUE)
        collection_key == Strip(SubSeq(raw, 1, eq - 1), Whitespace)
        output_dir == Strip(SubSeq(raw, eq + 1, Len(raw)), Whitespace)
    IN IF raw = <<>> THEN [kind |-> "blank"]
       ELSE IF eq > Len(raw) THEN [kind |-> "error"]
       ELSE IF collection_key = <<>> THEN [kind |-> "error"]
       ELSE IF output_dir = <<>> THEN [kind |-> "error"]
       ELSE [kind |-> "pair", key |-> collection_key, dir |-> output_dir]

\* mutant: a repeated key replaces the earlier entry without complaint
InMapping_Never(mapping, collection_key) == FALSE

\* line 45: collection_key in mapping; the dict is the sequence of its
\* <<key, Path>> entries in insertion order
InMapping(mapping, collection_key) ==
    \E j \in 1..Len(mapping) : mapping[j][1] = collection_key

RECURSIVE ParseFrom(_, _)
\* the for loop of lines 27-49 over the remaining values
ParseFrom(values, mapping) ==
    IF values = <<>> THEN Returned(mapping)
    ELSE LET e == ParseEntry(Head(values))
         IN IF e.kind = "blank" THEN ParseFrom(Tail(values), mapping)
            ELSE IF e.kind = "error" THEN Raised("ValueError")
            ELSE IF InMapping(mapping, e.key) THEN Raised("ValueError")
            ELSE ParseFrom(Tail(values),
                           Append(mapping, << e.key, Path(e.dir) >>))

parse_collection_output_pairs(values) == ParseFrom(values, <<>>)

InitPairs ==
    /\ NoRun
    /\ args \in PairLists
    /\ ret = NoCall

CallParsePairs ==
    /\ ret = NoCall
    /\ ret' = parse_collection_output_pairs(args)
    /\ UNCHANGED << runVars, args >>

SpecPairs == InitPairs /\ [][CallParsePairs]_vars

\* ------------------------- _render_markdown_with_page_sections, alone
\* What a page carries: the text of its page header, body and page footer
\* items (<<>>: no such item).
PageLayouts ==
    {[HEADER |-> <<"h">>, BODY |-> <<"b">>, FOOTER |-> <<"1">>],
     [HEADER |-> <<>>, BODY |-> <<"b">>, FOOTER |-> <<>>],
     [HEADER |-> <<" ">>, BODY |-> <<" ", "b">>, FOOTER |-> <<>>],
     [HEADER |-> <<>>, BODY |-> <<>>, FOOTER |-> <<>>]}

\* a document: the keys of document.pages and the items of every page
Documents ==
    [pages : SUBSET (1..MaxPage), items : [1..MaxPage -> PageLayouts]]

RECURSIVE Sorted(_)
\* sorted(...) of a set of integers
Sorted(S) ==
    IF S = {} THEN <<>>
    ELSE LET least == CHOOSE k \in S : \A m \in S : k <= m
         IN << least >> \o Sorted(S \ {least})

\* lines 285-299: the declared pages, or else the pages of the items'
\* provenance
_get_page_numbers(document) ==
    IF document.pages # {} THEN Sorted(document.pages)
    ELSE Sorted({p \in 1..MaxPage :
                    \E s \in {"HEADER", "BODY", "FOOTER"} :
                        document.items[p][s] # <<>>})

\* document.export_to_markdown(page_no = ..., one section).strip()
SectionText(document, page_no, section) ==
    Strip(document.items[page_no][section], Whitespace)

_section_marker(page_no, section, boundary) ==
    [kind |-> "marker", page |-> page_no, section |-> section,
     boundary |-> boundary]

Content(text) == [kind |-> "text", text |-> text]
PAGE_BREAK_MARKER == [kind |-> "page-break"]
Separator == [kind |-> "blank-line"]                 \* the "\n\n" of the join

\* lines 302-309
_format_section_block(page_no, section, content) ==
    << _section_marker(page_no, section, "START"),
       IF content # <<>> THEN Content(content)
       ELSE _section_marker(page_no, section, "EMPTY"),
       _section_marker(page_no, section, "END") >>

\* mutant: a page break follows every page, the last one too
BreakAfter_EveryPage(idx, last_idx) == TRUE

\* line 279: idx < last_idx (idx counts from 0)
BreakAfter(idx, last_idx) == idx < last_idx

RECURSIVE PageChunks(_, _, _)
\* the loop of lines 257-280 from position idx on
PageChunks(document, page_numbers, idx) ==
    IF idx > Len(page_numbers) - 1 THEN <<>>
    ELSE LET page_no == page_numbers[idx + 1]
         IN _format_section_block(page_no, "HEADER",
                                  SectionText(document, page_no, "HEADER"))
            \o _format_section_block(page_no, "BODY",
                                     SectionText(document, page_no, "BODY"))
            \o _format_section_block(page_no, "FOOTER",
                                     SectionText(document, page_no, "FOOTER"))
            \o (IF BreakAfter(idx, Len(page_numbers) - 1)
                THEN << PAGE_BREAK_MARKER >> ELSE <<>>)
            \o PageChunks(document, page_numbers, idx + 1)

RECURSIVE Join(_)
\* "\n\n".join(chunks)
Join(chunks) ==
    IF Len(chunks) <= 1 THEN chunks
    ELSE << Head(chunks), Separator >> \o Join(Tail(chunks))

\* lines 247-282; without page numbers the whole document is exported at
\* once
_render_markdown_with_page_sections(document) ==
    LET page_numbers == _get_page_numbers(document)
    IN IF page_numbers = <<>> THEN << [kind |-> "whole-document"] >>
       ELSE Strip(Join(PageChunks(document, page_numbers, 0)), {Separator})

InitPages ==
    /\ NoRun
    /\ args \in Documents
    /\ ret = NoCall

CallRenderPageSections ==
    /\ ret = NoCall
    /\ ret' = Returned(_render_markdown_with_page_sections(args))
    /\ UNCHANGED << runVars, args >>

SpecPages == InitPages /\ [][CallRenderPageSections]_vars

\* ------------------------------------------- runs of larger work sets
\* The library above never yields more than two accepted items.  Here the
\* library holds items that differ in every key, so that all of them are
\* accepted and the pools get more items than slots; multi-GPU is asked for
\* and nothing exists under the output directory.  max_workers and
\* workers_per_gpu, and the accelerators and processors of the machine, are
\* drawn at the start and kept in plan_in (the processors are counted only
\* when no accelerator is found).  What _process_attachment
\* does after its first existence test is one step: the converter cache
\* and the render attempts of an item are not followed.
RoutedKeys == << "1", "2", "3", "4", "a", "b", "c", "e" >>

RoutedItem(k) ==
    [attachment_key |-> << "k", RoutedKeys[k] >>,
     parent_item_key |-> << "p", RoutedKeys[k] >>,
     title |-> << "a" >>, parent_title |-> << "t" >>,
     parent_citation_key |-> << "c", RoutedKeys[k] >>]

InitRoute ==
    /\ package = "files2md"
    /\ settings = [dry_run |-> FALSE, overwrite |-> FALSE,
                   reference_folder_name |-> "citation-key",
                   use_multi_gpu |-> TRUE, skip_existing |-> FALSE]
    /\ attachments \in {[k \in 1..n |-> RoutedItem(k)] : n \in 1..MaxRouted}
    /\ fs = {}
    /\ dirs = {}
    /\ pc = "start"
    /\ loop_idx = 0
    /\ results = <<>>
    /\ seen_output_paths = {}
    /\ attachments_to_process = <<>>
    /\ plan_in \in {i \in PlanInputs :
                        /\ i.n = Len(attachments) /\ i.use_multi_gpu
                        /\ i.cpu_count \in (IF i.gpu_count = 0 THEN {0, 2}
                                             ELSE {0})}
    /\ pool = NoPlan
    /\ args = NoCall
    /\ ret = NoCall
    /\ queues = <<>>
    /\ workers = <<>>
    /\ tasks = <<>>
    /\ processed = <<>>
    /\ writes = {}
    /\ summary = NoSummary

\* StartPool with the settings and the machine of plan_in
StartPoolRoute ==
    StartPoolWith(plan_in.max_workers, plan_in.workers_per_gpu,
                  plan_in.gpu_count, plan_in.cpu_count)

\* exporter.py lines 363-392, the download and the conversion at once: the
\* item ends converted, its file written, or skipped, its folder created or
\* not
ProcessAttachment(w) ==
    /\ workers[w].task # 0
    /\ LET t == workers[w].task
       IN /\ tasks[t].st = "download"
          /\ \E status \in {"converted", "skipped"}, mkdir_ok \in BOOLEAN :
                /\ status = "converted" => mkdir_ok
                /\ dirs' = IF mkdir_ok THEN dirs \cup {WritePath(t)[1]}
                           ELSE dirs
                /\ IF status = "converted"
                   THEN /\ fs' = fs \cup {WritePath(t)}
                        /\ writes' = writes \cup {<<t, WritePath(t)>>}
                   ELSE UNCHANGED << fs, writes >>
                /\ Return(w, t, Result(Src(t), WritePath(t), status))
    /\ UNCHANGED queues
    /\ UNCHANGED mainVars

NextRoute ==
    \/ ExportLibraryStart
    \/ FilterStep
    \/ StartPoolRoute
    \/ Submit
    \/ \E w \in WorkerIds : WorkerStart(w)
    \/ \E w \in WorkerIds : ProcessAttachment(w)
    \/ \E t \in 1..Len(tasks) : Collect(t)
    \/ Finish

SpecRoute == InitRoute /\ [][NextRoute]_vars

\* ------------------------------------------------- _is_cuda_oom, alone
\* An error message is a sequence of words.  The words that matter to the
\* classifier, in the spellings a message can have them:
MessageWords == {"CUDA", "cuda", "out of memory", "Out Of Memory", "error:", "x"}

\* str.lower() of a message
MessageLower(message) ==
    [j \in 1..Len(message) |->
        CASE message[j] = "CUDA" -> "cuda"
          [] message[j] = "Out Of Memory" -> "out of memory"
          [] OTHER -> message[j]]

\* phrase in message
Contains(message, phrase) ==
    \E k \in 0..(Len(message) - Len(phrase)) :
        SubSeq(message, k + 1, k + Len(phrase)) = phrase

\* the messages of the errors, the signals among them in several spellings
Messages ==
    {<<"x">>, <<"CUDA", "out of memory">>, <<"x", "cuda", "Out Of Memory">>,
     <<"CUDA", "error:", "out of memory">>, <<"out of memory", "x", "cuda">>,
     <<"out of memory">>, <<"CUDA", "error:", "x">>}

\* an error: its message, whether it is a torch.OutOfMemoryError, and the
\* errors (0: None) its __cause__ and __context__ refer to
ErrorIds == 1..MaxErr
Errors(messages) ==
    [message : messages, typed : BOOLEAN, cause : 0..MaxErr,
     context : 0..MaxErr]

\* the errors in memory when the classifier is called on error 1: error 1
\* has any message, the others a plain message or an out-of-memory one
ErrorGraphs ==
    {g \in [ErrorIds -> Errors(Messages)] :
        \A e \in ErrorIds \ {1} :
            /\ g[e].message \in {<<"x">>, <<"CUDA", "out of memory">>}
            /\ ~g[e].typed}

\* mutant: only __cause__ is followed
NextInChain_CauseOnly(err) == err.cause

\* line 344: current.__cause__ or current.__context__
NextInChain(err) == IF err.cause # 0 THEN err.cause ELSE err.context

RECURSIVE iter_chain(_, _, _)
\* lines 338-344: the errors yielded from `current` on, `seen` being the
\* errors yielded before
iter_chain(errors, current, seen) ==
    IF current = 0 \/ current \in seen THEN <<>>
    ELSE << current >>
         \o iter_chain(errors, NextInChain(errors[current]),
                       seen \cup {current})

\* lines 346-357 for one error of the chain
CarriesOomSignal(err) ==
    LET message == MessageLower(err.message)
    IN \/ Contains(message, <<"cuda", "out of memory">>)
       \/ (Contains(message, <<"out of memory">>)
             /\ Contains(message, <<"cuda">>))
       \/ err.typed

\* lines 337-358
_is_cuda_oom(errors, exc) ==
    LET chain == iter_chain(errors, exc, {})
    IN \E k \in 1..Len(chain) : CarriesOomSignal(errors[chain[k]])

InitOom ==
    /\ NoRun
    /\ args \in [exc : {1}, errors : ErrorGraphs]
    /\ ret = NoCall

CallIsCudaOom ==
    /\ ret = NoCall
    /\ ret' = Returned([value |-> _is_cuda_oom(args.errors, args.exc),
                        chain |-> iter_chain(args.errors, args.exc, {})])
    /\ UNCHANGED << runVars, args >>

SpecOom == InitOom /\ [][CallIsCudaOom]_vars

\* ------------------------------------------- export_library, run twice
\* zotero_files2md's export_library is called a second time with the same
\* settings over the same item list, on the output directory as the first
\* run left it.  args keeps what the first run did: the items it wrote a
\* file for, the paths it wrote, and its results.
InitRerun ==
    /\ Init
    /\ package = "files2md"
    /\ ~settings.dry_run /\ ~settings.overwrite

FirstRun(written, paths, rs) ==
    [st |-> "first-run", written |-> written, paths |-> paths, results |-> rs]

\* the second call of export_library: every local of the first run is gone,
\* the files and directories stay
RunAgain ==
    /\ pc = "done"
    /\ args = NoCall
    /\ args' = FirstRun({Src(w[1]) : w \in writes}, {w[2] : w \in writes},
                        results)
    /\ pc' = "start"
    /\ loop_idx' = 0
    /\ results' = <<>>
    /\ seen_output_paths' = {}
    /\ attachments_to_process' = <<>>
    /\ plan_in' = NoPlanIn
    /\ pool' = NoPlan
    /\ queues' = <<>>
    /\ workers' = <<>>
    /\ tasks' = <<>>
    /\ processed' = <<>>
    /\ writes' = {}
    /\ summary' = NoSummary
    /\ UNCHANGED << package, settings, attachments, fs, dirs, ret >>

NextRerun == FilesNext \/ RunAgain

SpecRerun == InitRerun /\ [][NextRerun]_vars

\* ------------------------------------------------ export_collections, alone
\* export_collections(base_settings, collection_output_dirs).  The mapping is
\* a sequence of << collection key, output directory >> pairs in insertion
\* order, every key at most once; of the settings the two overridden fields
\* are kept.  A call of export_library returns a summary or raises.
MaxBatch == 2         \* entries of the mapping
MaxRunItems == 1      \* outcomes in the summary of one export

BatchDirs == {"d1", "d2"}

Mappings ==
    {m \in UNION {[1..n -> (1..MaxBatch) \X BatchDirs] : n \in 0..MaxBatch} :
        \A i, j \in 1..Len(m) : i # j => m[i][1] # m[j][1]}

BatchSettings == [output_dir : {"d0"}, collections : {{}, {MaxBatch + 1}}]

\* the summaries export_library can return for a run into output_dir
RunSummaries(output_dir) ==
    {summarize_results(rs) :
        rs \in UNION {[1..n -> {Result(1, << output_dir, "f" >>, s) :
                                   s \in {"converted", "skipped", "dry-run"}}] :
                         n \in 0..MaxRunItems}}

\* mutant: the collection filter of the base settings is kept
run_settings_KeepsFilter(base_settings, collection_key, output_dir) ==
    [base_settings EXCEPT !.output_dir = output_dir]

\* lines 86-90: replace(base_settings, output_dir=..., collections={key})
run_settings(base_settings, collection_key, output_dir) ==
    [base_settings EXCEPT !.output_dir = output_dir,
                          !.collections = {collection_key}]

InitBatch ==
    /\ NoRun
    /\ args \in [base_settings : BatchSettings,
                 collection_output_dirs : Mappings]
    /\ ret = NoCall

\* lines 76-83: an empty mapping raises, or the totals start at zero
CallExportCollections ==
    /\ ret = NoCall
    /\ ret' = IF args.collection_output_dirs = <<>>
              THEN Raised("ValueError")
              ELSE [st |-> "loop", i |-> 1,
                    base_settings |-> args.base_settings,
                    exports |-> <<>>, runs |-> <<>>,
                    processed |-> 0, converted |-> 0, skipped |-> 0,
                    dry_run |-> 0, output_paths |-> <<>>]
    /\ UNCHANGED << runVars, args >>

\* lines 85-103: one iteration of the loop; an exception of export_library
\* is not caught
ExportOneCollection ==
    /\ ret.st = "loop"
    /\ ret.i <= Len(args.collection_output_dirs)
    /\ LET collection_key == args.collection_output_dirs[ret.i][1]
           output_dir == args.collection_output_dirs[ret.i][2]
           settings_of_run ==
               run_settings(ret.base_settings, collection_key, output_dir)
           called == [ret EXCEPT !.exports = Append(@, settings_of_run)]
       IN \/ ret' = [called EXCEPT !.st = "raised"]
          \/ \E run_summary \in RunSummaries(settings_of_run.output_dir) :
                ret' = [called EXCEPT
                           !.i = @ + 1,
                           !.runs = Append(@,
                               [collection_key |-> collection_key,
                                output_dir |-> settings_of_run.output_dir,
                                summary |-> run_summary]),
                           !.processed = @ + run_summary.processed,
                           !.converted = @ + run_summary.converted,
                           !.skipped = @ + run_summary.skipped,
                           !.dry_run = @ + run_summary.dry_run,
                           !.output_paths = @ \o run_summary.output_paths]
    /\ UNCHANGED << runVars, args >>

\* lines 104-111: the BatchExportSummary is returned
ReturnBatchSummary ==
    /\ ret.st = "loop"
    /\ ret.i > Len(args.collection_output_dirs)
    /\ ret' = [ret EXCEPT !.st = "returned"]
    /\ UNCHANGED << runVars, args >>

NextBatch ==
    CallExportCollections \/ ExportOneCollection \/ ReturnBatchSummary

SpecBatch == InitBatch /\ [][NextBatch]_vars

\* ================================================================ claims
Range(seq) == {seq[k] : k \in 1..Len(seq)}
ItemIds == 1..Len(attachments)
ResultsOf(k) == {j \in 1..Len(results) : results[j].source = k}
StatusOf(k) == results[CHOOSE j \in ResultsOf(k) : TRUE].status
ResolvedPath(k) ==
    compute_output_path(attachments[k], settings.reference_folder_name)
SamePathAs(k) == {i \in ItemIds : ResolvedPath(i) = ResolvedPath(k)}
WrittenPaths == {w[2] : w \in writes}
Files == package = "files2md"

\* C1: the summary returned by export_library, of either package, for any
\* item list, flags, mix of download, render and write failures and order
\* of completion, has processed = converted + skipped + dry_run
Thm_C1_OutcomeCompleteness ==
    pc = "done" =>
        /\ summary.processed = Len(results)
        /\ summary.processed =
               summary.converted + summary.skipped + summary.dry_run

\* a finished zotero_files2md run of two pipeline runs, one converted and
\* one that failed in its render
Wit_C1_MixedOutcomes ==
    /\ Files /\ pc = "done"
    /\ summary.converted = 1 /\ summary.skipped = 1 /\ summary.processed = 2
    /\ N = 2
    /\ \E t \in 1..N : /\ tasks[t].attempts # <<>>
                       /\ tasks[t].result.status = "skipped"

\* C2: in zotero_files2md every attachment of the source contributes exactly
\* one outcome to the summary (never more than one while the run goes on),
\* synthesized by the filter or produced by its pipeline run, so processed
\* equals the number of source items
Thm_C2_OneOutcomePerItem ==
    Files =>
        /\ \A k \in ItemIds : Cardinality(ResultsOf(k)) <= 1
        /\ pc = "done" =>
              /\ summary.processed = Len(attachments)
              /\ \A k \in ItemIds : Cardinality(ResultsOf(k)) = 1

\* a finished run with an outcome synthesized by the filter and a pipeline
\* run that failed after its download
Wit_C2_FilterAndPipelineOutcomes ==
    /\ Files /\ pc = "done" /\ ~settings.dry_run
    /\ N >= 1 /\ Len(attachments) > N
    /\ \E t \in 1..N : tasks[t].downloads = 1
                       /\ tasks[t].result.status = "skipped"

\* C3: in every run, dry or not, among the items that resolve to
\* one output path exactly one contributes converted or dry-run (or none, if
\* the path existed before the run and overwrite is off) and the others are
\* skipped
Orig_C3_ExactlyOneProductive ==
    (Files /\ pc = "done") =>
        \A k \in ItemIds :
            Cardinality(SamePathAs(k)) >= 2 =>
                LET productive ==
                        {i \in SamePathAs(k) :
                            StatusOf(i) \in {"converted", "dry-run"}}
                    skipExisting ==
                        /\ ~settings.overwrite
                        /\ ResolvedPath(k) \in fs \ WrittenPaths
                IN /\ \A i \in SamePathAs(k) \ productive :
                          StatusOf(i) = "skipped"
                   /\ \/ Cardinality(productive) = 1
                      \/ productive = {} /\ skipExisting

Started(t) == tasks[t].st \notin {"new", "queued"}

\* C4: the filter has run over the whole list before any worker exists; of
\* the items that resolve to one path only the earliest can enter the work
\* set, every later one is recorded skipped before the first download of the
\* run starts and is never downloaded or rendered
Orig_C4_LaterDuplicatesNeverRun ==
    Files =>
        /\ Len(workers) > 0 => pc \notin {"start", "filter"}
        /\ \A i, j \in ItemIds :
              (i < j /\ ResolvedPath(i) = ResolvedPath(j)) =>
                  /\ j \notin Range(attachments_to_process)
                  /\ (\E t \in 1..Len(tasks) : Started(t)) =>
                         /\ ResultsOf(j) # {}
                         /\ StatusOf(j) = "skipped"

\* C5: at most one pipeline run of a run of export_library writes to any
\* given output path, under either naming strategy
Orig_C5_OneWriterPerPath ==
    Files =>
        \A w1, w2 \in writes : w1[2] = w2[2] => w1[1] = w2[1]

\* C9: in the accelerator regime every worker process is bound to exactly
\* one accelerator, the one of its executor, from its creation on, and an
\* item routed to accelerator g is only ever executed by a worker bound to g
C9_Pinned ==
    (Files /\ pool.regime = "gpu") =>
        /\ \A w \in WorkerIds :
              /\ workers[w].gpu \in Range(pool.gpu_ids)
              /\ workers[w].gpu = workers[w].executor
              /\ workers[w].task # 0 =>
                     RouteOf(pool, workers[w].task) = workers[w].gpu
        /\ \A t \in 1..Len(tasks) :
              Started(t) => tasks[t].gpu = RouteOf(pool, t)

C9_NeverRebound ==
    Len(workers) > 0 =>
        /\ Len(workers') = Len(workers)
        /\ \A w \in WorkerIds :
              /\ workers'[w].gpu = workers[w].gpu
              /\ workers'[w].executor = workers[w].executor

Thm_C9_WorkersPinned == [] C9_Pinned /\ [][C9_NeverRebound]_vars

\* two items of one run were executed on two different accelerators
Wit_C9_TwoAccelerators ==
    /\ Files /\ pool.regime = "gpu"
    /\ \E t1, t2 \in 1..Len(tasks) :
          /\ tasks[t1].st = "collected" /\ tasks[t2].st = "collected"
          /\ tasks[t1].gpu = 0 /\ tasks[t2].gpu = 1
          /\ tasks[t1].attempts # <<>> /\ tasks[t2].attempts # <<>>

\* C10: the conversion engine is invoked at most twice for an item; a first
\* attempt that fails as out-of-memory gets exactly one retry, on the CPU
\* device, and a retry that fails for any reason ends the item as skipped
Thm_C10_AtMostTwoAttempts ==
    Files => \A t \in 1..Len(tasks) :
        LET a == tasks[t].attempts
            over == tasks[t].st \in {"finished", "collected"}
        IN /\ Len(a) <= 2
           /\ Len(a) = 2 => (a[1].outcome = "oom" /\ a[2].device = "cpu")
           /\ (Len(a) >= 1 /\ a[1].outcome = "oom"
                 /\ (over \/ tasks[t].st = "write")) => Len(a) = 2
           /\ (Len(a) = 2 /\ a[2].outcome # "ok") =>
                  (over /\ tasks[t].result.status = "skipped")

\* an item whose first attempt and whose CPU retry both ran out of memory
Wit_C10_SecondOomIsFinal ==
    \E t \in 1..Len(tasks) :
        /\ Files
        /\ tasks[t].st = "collected"
        /\ Len(tasks[t].attempts) = 2
        /\ tasks[t].attempts[1].outcome = "oom"
        /\ tasks[t].attempts[2].outcome = "oom"
        /\ processed[t].status = "skipped"

RECURSIVE SumSeq(_)
SumSeq(q) == IF q = <<>> THEN 0 ELSE Head(q) + SumSeq(Tail(q))

\* C6: the per-accelerator assignments sum to total_workers, any two differ
\* by at most 1, and the larger ones go to the first (total_workers mod used
\* accelerators) accelerators in id order
Thm_C6_PoolShape ==
    pool.regime = "gpu" =>
        LET per == pool.processes_per_gpu
            used == Len(pool.gpu_ids)
            total == pool.total_workers
        IN /\ used >= 1 /\ Len(per) = used
           /\ SumSeq(per) = total
           /\ \A a, b \in 1..used : per[a] - per[b] <= 1
           /\ \A k \in 1..used :
                 /\ pool.gpu_ids[k] = k - 1
                 /\ per[k] = (total \div used)
                              + (IF k <= total % used THEN 1 ELSE 0)

\* a plan with an uneven split over several accelerators
Wit_C6_UnevenSplit ==
    /\ pool.regime = "gpu"
    /\ Len(pool.gpu_ids) >= 2
    /\ pool.total_workers % Len(pool.gpu_ids) # 0
    /\ plan_in.max_workers # 0

C7_Example ==
    [n |-> 6, use_multi_gpu |-> TRUE, max_workers |-> 0,
     workers_per_gpu |-> 2, gpu_count |-> 2]

\* C7: with multi-GPU enabled and G > 0 accelerators detected, total_workers
\* = max(1, min(N, user cap or N, G * W)) and the accelerators used are the
\* first min(G, total_workers) ids; 2 accelerators, W = 2, 6 items and no cap
\* give 4 workers, 2 on each accelerator
Thm_C7_AcceleratorRegime ==
    (pc = "planned" /\ plan_in.use_multi_gpu /\ plan_in.gpu_count > 0) =>
        LET n == plan_in.n
            cap == IF plan_in.max_workers # 0 THEN plan_in.max_workers ELSE n
            G == plan_in.gpu_count
            W == plan_in.workers_per_gpu
            total == Max(1, Min(Min(n, cap), G * W))
        IN /\ pool.regime = "gpu"
           /\ pool.total_workers = total
           /\ pool.gpu_ids = [k \in 1..Min(G, total) |-> k - 1]
           /\ (\A f \in DOMAIN C7_Example : plan_in[f] = C7_Example[f]) =>
                  /\ pool.total_workers = 4
                  /\ pool.processes_per_gpu = <<2, 2>>

\* the plan for 2 accelerators, W = 2, 6 items and no cap
Wit_C7_Example ==
    /\ pc = "planned"
    /\ \A f \in DOMAIN C7_Example : plan_in[f] = C7_Example[f]
    /\ pool.processes_per_gpu = <<2, 2>>

\* what the claim says the thread pool's size is
C8_Workers(n, cap, cpu) ==
    Max(1, Min(n, IF cap # 0 THEN cap
                  ELSE Min(12, IF cpu # 0 THEN cpu ELSE 4)))

C8_SizeAsClaimed ==
    /\ \A n \in 1..MaxWork, cap \in 0..MaxCap, cpu \in 0..MaxCpu :
          TotalWorkersThreads(n, cap, cpu) = C8_Workers(n, cap, cpu)
    /\ \A cpu \in 0..MaxCpu : TotalWorkersThreads(10, 4, cpu) = 4

\* C8: without accelerators (or with multi-GPU off) the pool has
\* max(1, min(N, user cap or min(12, CPU count or 4))) interchangeable
\* workers (10 items and max_workers = 4 give 4) and every accepted item is
\* processed by one of them, so that processed counts every item
Thm_C8_GeneralistRegime ==
    /\ C8_SizeAsClaimed
    /\ (Files /\ pool.regime = "threads" /\ pc # "planned") =>
          /\ \E cap \in 0..MaxCap, cpu \in 0..MaxCpu :
                 pool.total_workers = C8_Workers(N, cap, cpu)
          /\ Len(workers) = pool.total_workers
          /\ \A w \in WorkerIds : /\ workers[w].executor = THREADS
                                  /\ workers[w].gpu = NO_GPU
          /\ DOMAIN queues = {THREADS}
          /\ pc = "done" =>
                /\ \A t \in 1..N :
                      /\ tasks[t].st = "collected"
                      /\ tasks[t].worker \in 1..pool.total_workers
                      /\ processed[t] = tasks[t].result
                      /\ processed[t].status \in {"converted", "skipped"}
                /\ summary.processed = Len(attachments)

\* a finished run whose two accepted items were processed by the two
\* workers of the thread pool
Wit_C8_TwoThreads ==
    /\ Files /\ pool.regime = "threads" /\ pc = "done"
    /\ N = 2 /\ pool.total_workers = 2
    /\ tasks[1].worker # tasks[2].worker
    /\ summary.processed = Len(attachments)

Written(t) == <<t, WritePath(t)>> \in writes
Over(t) == tasks[t].st \in {"finished", "collected"}

\* C12: an item whose first render failed with an error that is not
\* out-of-memory is terminal at once: the engine was invoked exactly once,
\* no recovery was attempted, it wrote nothing and its outcome is skipped
Thm_C12_NonOomIsTerminal ==
    Files =>
        \A t \in 1..Len(tasks) :
            LET a == tasks[t].attempts
            IN (Len(a) >= 1 /\ a[1].outcome = "error") =>
                  /\ Len(a) = 1
                  /\ tasks[t].freed = 0
                  /\ Over(t)
                  /\ tasks[t].result.status = "skipped"
                  /\ ~Written(t)

\* a collected item whose only render failed with an ordinary error
Wit_C12_RenderError ==
    /\ Files
    /\ \E t \in 1..Len(tasks) :
          /\ tasks[t].st = "collected"
          /\ Len(tasks[t].attempts) = 1
          /\ tasks[t].attempts[1].outcome = "error"
          /\ processed[t].status = "skipped"

DownloadFailed(t) == tasks[t].downloads >= 1 /\ ~tasks[t].fetched

\* C13: an item whose byte-fetch failed is terminal: its outcome is
\* skipped, the download was made once, the engine was never invoked for it
\* and it wrote nothing
Thm_C13_DownloadFailureIsTerminal ==
    Files =>
        \A t \in 1..Len(tasks) :
            DownloadFailed(t) =>
                /\ tasks[t].downloads = 1
                /\ Over(t)
                /\ tasks[t].result.status = "skipped"
                /\ tasks[t].attempts = <<>>
                /\ ~Written(t)

\* a finished run with an item whose byte-fetch failed, reported skipped
Wit_C13_DownloadFailed ==
    /\ Files /\ pc = "done"
    /\ \E t \in 1..Len(tasks) :
          /\ DownloadFailed(t)
          /\ processed[t].status = "skipped"
          /\ summary.skipped >= 1

\* C11: after a first render that failed as accelerator out-of-memory the
\* worker has dropped its cached converter and freed accelerator memory
\* before the retry starts, the retry runs with the CPU device forced, and
\* when the retry and the write both succeed the outcome is converted
Thm_C11_OomRecovery ==
    Files =>
        \A t \in 1..Len(tasks) :
            LET a == tasks[t].attempts
            IN (Len(a) >= 1 /\ a[1].outcome = "oom") =>
                  /\ tasks[t].freed = 1
                  /\ tasks[t].st = "retry" =>
                         workers[tasks[t].worker].cache = NoCache
                  /\ Len(a) = 2 =>
                         /\ a[2].device = "cpu"
                         /\ a[2].had = "none"
                         /\ a[2].built
                  /\ (Over(t) /\ Len(a) = 2 /\ a[2].outcome = "ok") =>
                         tasks[t].result.status =
                             (IF Written(t) THEN "converted" ELSE "skipped")

\* an item of an accelerator worker whose first render ran out of memory on
\* CUDA and whose CPU retry and write succeeded
Wit_C11_RecoveredOnCpu ==
    /\ Files
    /\ \E t \in 1..Len(tasks) :
          /\ tasks[t].st = "collected"
          /\ Len(tasks[t].attempts) = 2
          /\ tasks[t].attempts[1].device = "cuda"
          /\ tasks[t].attempts[1].outcome = "oom"
          /\ tasks[t].attempts[2].outcome = "ok"
          /\ Written(t)
          /\ processed[t].status = "converted"

\* C20: a render call builds a converter exactly when its worker has none
\* cached or the cached key differs from the call's key, and reuses the
\* cached one otherwise; the cached key is the key the cached converter was
\* built with; a worker only ever holds and uses converters it built
Thm_C20_WorkerLocalCache ==
    Files =>
        /\ \A w \in WorkerIds :
              LET c == workers[w].cache
              IN /\ c.key = c.converter.built_with
                 /\ c.converter # NoConverter => c.converter.owner = w
        /\ \A t \in 1..Len(tasks) :
              \A i \in 1..Len(tasks[t].attempts) :
                  LET a == tasks[t].attempts[i]
                  IN /\ a.built = (a.had = "none" \/ a.had # a.device)
                     /\ a.used.built_with = a.device
                     /\ a.used.owner = tasks[t].worker

\* one worker ran two items: the first left the CPU converter of its retry
\* in the cache, the second found that key, built a new converter for its
\* own device, and a worker of another item reused nothing of it
Wit_C20_RebuiltOnKeyChange ==
    /\ Files
    /\ \E t1, t2 \in 1..Len(tasks) :
          /\ t1 # t2
          /\ tasks[t1].worker = tasks[t2].worker
          /\ Len(tasks[t1].attempts) = 2
          /\ Len(tasks[t2].attempts) = 1
          /\ tasks[t2].attempts[1].had = "cpu"
          /\ tasks[t2].attempts[1].built
          /\ tasks[t2].st = "collected"

\* some step of the run can be taken: the main thread is before its wait,
\* or a future is ready to be handed over, or every future was, or a worker
\* is inside a call, or a free worker's executor has a call waiting
C14_CanGoOn ==
    \/ pc \in {"start", "filter", "submit"}
    \/ \E t \in 1..Len(tasks) : tasks[t].st = "finished"
    \/ \A t \in 1..Len(tasks) : tasks[t].st = "collected"
    \/ \E w \in WorkerIds :
          IF workers[w].task # 0
          THEN tasks[workers[w].task].st \in
                   {"download", "convert", "render", "retry", "write"}
          ELSE queues[workers[w].executor] # <<>>

\* C14: no item's failure aborts a run of zotero_files2md export_library:
\* it raises nothing, it can always go on until it has returned, and when
\* it returns every accepted item has a terminal outcome in the summary,
\* converted if it wrote its output and skipped if it failed anywhere
Thm_C14_FailuresAreContained ==
    Files =>
        /\ pc # "raised"
        /\ pc # "done" => C14_CanGoOn
        /\ (pc = "done" /\ ~settings.dry_run) =>
              \A t \in 1..N :
                  /\ tasks[t].st = "collected"
                  /\ processed[t].status =
                         (IF Written(t) THEN "converted" ELSE "skipped")
                  /\ \E j \in 1..Len(results) :
                         /\ results[j] = processed[t]
                         /\ results[j].source = Src(t)
                  /\ summary.skipped >=
                         Cardinality({u \in 1..N : ~Written(u)})

\* a finished run of two accepted items: the byte-fetch of one failed and
\* the other was converted
Wit_C14_OneFailsOneConverts ==
    /\ Files /\ pc = "done" /\ N = 2
    /\ \E t, u \in 1..N :
          /\ DownloadFailed(t)
          /\ processed[t].status = "skipped"
          /\ processed[u].status = "converted"
    /\ summary.processed = 2 /\ summary.converted = 1 /\ summary.skipped = 1

\* C15: with overwrite off a pipeline run looks at its output path again
\* after the render and just before the write, so that an item at whose
\* output path another program created a file after the filter accepted it
\* writes nothing there and is reported skipped
Orig_C15_RecheckBeforeWrite ==
    (Files /\ ~settings.overwrite) =>
        \A t \in 1..Len(tasks) :
            <<EXTERNAL, WritePath(t)>> \in writes =>
                /\ ~Written(t)
                /\ Over(t) => tasks[t].result.status = "skipped"

\* the output path of item k was there before the run began
ExistedBefore(k) ==
    /\ PdfPath(k) \in fs
    /\ \A w \in writes : w[2] # PdfPath(k)

\* C16: with the skip-existing setting set, an item whose output path
\* exists already is reported skipped and kept out of the work set: it is
\* never downloaded and the engine is never invoked for it, whatever the
\* value of overwrite
Orig_C16_SkipExistingExcludes ==
    (package = "pdf2md" /\ settings.skip_existing /\ ~settings.dry_run) =>
        \A k \in 1..Len(tasks) :
            ExistedBefore(k) =>
                /\ tasks[k].downloads = 0
                /\ tasks[k].st \notin {"download", "downloaded"}
                /\ tasks[k].attempts = <<>>

\* five attachments of five parents, none with an output file
C17_FiveItems ==
    [k \in 1..5 |->
        [A1 EXCEPT !.attachment_key = <<"k">> \o [j \in 1..k |-> "1"],
                   !.parent_item_key = <<"p">> \o [j \in 1..k |-> "1"],
                   !.parent_citation_key = [j \in 1..k |-> "c"]]]

C17_FiveItemsSummary ==
    LET sum == summarize_results(DryRunResults(C17_FiveItems))
    IN /\ sum.processed = 5 /\ sum.dry_run = 5
       /\ sum.converted = 0 /\ sum.skipped = 0

\* C17: with dry_run set, zotero_files2md export_library downloads nothing,
\* renders nothing, creates no pool and writes nothing, and reports dry-run
\* for every item; five items give processed = 5, dry_run = 5, converted =
\* 0 and skipped = 0
Thm_C17_DryRunIsolation ==
    /\ C17_FiveItemsSummary
    /\ (Files /\ settings.dry_run) =>
          /\ tasks = <<>> /\ workers = <<>> /\ queues = <<>>
          /\ pool = NoPlan
          /\ writes = {}
          /\ pc \in {"start", "done"}
          /\ pc = "done" =>
                /\ Len(results) = Len(attachments)
                /\ \A k \in ItemIds : /\ results[k].source = k
                                      /\ results[k].status = "dry-run"
                /\ summary.processed = Len(attachments)
                /\ summary.dry_run = Len(attachments)
                /\ summary.converted = 0 /\ summary.skipped = 0

\* a finished dry run over two items of one output path, one of which
\* already has its output file
Wit_C17_DryRunOfTwo ==
    /\ Files /\ settings.dry_run /\ pc = "done"
    /\ Len(attachments) = 2
    /\ results[1].output = results[2].output
    /\ results[1].output \in fs
    /\ summary.dry_run = 2

\* C18: when the source yields no item, or the filter accepts none,
\* export_library returns a summary without creating a worker pool and
\* without raising; with no source item every count is 0 and output_paths
\* is empty
Thm_C18_NothingToDo ==
    Files =>
        /\ (Len(attachments) = 0
            \/ (pc \in {"collect", "submit", "done", "raised"}
                /\ ~settings.dry_run /\ attachments_to_process = <<>>)) =>
              /\ pc \in {"start", "done"}
              /\ pool = NoPlan
              /\ workers = <<>> /\ queues = <<>> /\ tasks = <<>>
              /\ pc = "done" =>
                    /\ summary.processed = Len(attachments)
                    /\ summary.skipped = Len(attachments)
                    /\ summary.converted = 0 /\ summary.dry_run = 0
        /\ (Len(attachments) = 0 /\ pc = "done") =>
              /\ summary.processed = 0 /\ summary.converted = 0
              /\ summary.skipped = 0 /\ summary.dry_run = 0
              /\ summary.output_paths = <<>>

\* a finished run whose filter rejected both source items, one as existing
\* and one as a duplicate
Wit_C18_FilterAcceptsNone ==
    /\ Files /\ pc = "done" /\ ~settings.dry_run
    /\ Len(attachments) = 2
    /\ attachments_to_process = <<>>
    /\ summary.skipped = 2
    /\ workers = <<>>

\* every failure to import or query the accelerator runtime counts as no
\* accelerator, and no accelerator means the thread pool
C19_DetectionDegrades ==
    /\ \A env \in TorchEnvs :
          /\ _detect_gpu_count(env) \in 0..MaxGpu
          /\ env.kind # "cuda" => _detect_gpu_count(env) = 0
    /\ \A n \in 1..MaxWork, cap \in 0..MaxCap, W \in 1..MaxWpg,
          cpu \in 0..MaxCpu :
          PoolPlan(n, TRUE, cap, W, 0, cpu).regime = "threads"

RECURSIVE C21_FirstUsable(_)
C21_FirstUsable(chain) ==
    IF chain = <<>> THEN <<"i", "t", "e", "m">>
    ELSE IF _clean_slug_text(Head(chain)) # <<>>
         THEN slugify(Head(chain), <<>>)
         ELSE C21_FirstUsable(Tail(chain))

C21_ParentChain(a, strategy) ==
    IF strategy = "citation-key"
    THEN << a.parent_citation_key, a.parent_title, a.parent_item_key >>
    ELSE << a.parent_title, a.parent_item_key >>

\* C21: compute_output_path names the reference folder by the first usable
\* field of: citation key, parent title, parent identifier, "item" under
\* citation-key; parent title, parent identifier, "item" under item-title;
\* and the leaf file by the item title, falling back to the item's own key
Orig_C21_FallbackOrder ==
    ret.st = "returned" =>
        LET a == args.attachment
        IN ret.value =
               << C21_FirstUsable(C21_ParentChain(a, args.reference_folder_name)),
                  C21_FirstUsable(<< a.title, a.attachment_key >>) >>

\* C22: with a limit L configured the attachment source yields at most L
\* items, and from the moment the L-th item was yielded it requests no
\* further page and no further parent item from the remote
Thm_C22_LimitHonoured ==
    (ret.st \notin {"none"} /\ args.limit > 0) =>
        /\ Len(ret.out) <= args.limit
        /\ Len(ret.out) = args.limit =>
               Len(ret.requests) = ret.requests_at_yield[args.limit]

\* a finished iteration that stopped at limit 1 although the remote still
\* lists an item it never looked at, whose parent it never fetched
Wit_C22_StoppedAtLimit ==
    /\ ret.st = "returned"
    /\ args.limit = 1 /\ Len(ret.out) = 1
    /\ \E k \in 1..Len(args.remote) :
          /\ args.remote[k].importable
          /\ args.remote[k].key \notin ret.seen_keys
          /\ args.remote[k].parentItem # 0
          /\ args.remote[k].parentItem \notin ret.parent_cache

\* C23: in zotero_pdf2md export_library an attachment whose download failed
\* or whose conversion raised is reported in the summary as a skipped
\* outcome, counted in processed and in skipped
Orig_C23_PdfFailuresReported ==
    (package = "pdf2md" /\ pc = "done" /\ ~settings.dry_run) =>
        /\ summary.processed = Len(attachments)
        /\ \A k \in 1..Len(tasks) :
              (~tasks[k].fetched \/ tasks[k].st = "dropped") =>
                  \E j \in 1..Len(results) :
                      /\ results[j].source = k
                      /\ results[j].status = "skipped"

\* C24: a dry run of zotero_pdf2md export_library leaves the filesystem
\* untouched: nothing is downloaded, and no file and no directory is created
\* under the output directory
Orig_C24_PdfDryRunTouchesNothing ==
    (package = "pdf2md" /\ settings.dry_run) =>
        /\ tasks = <<>>
        /\ writes = {}
        /\ dirs = {p[1] : p \in fs}

\* C25: slugify of either package returns, for every value and every
\* fallback, a text of at most 120 characters all of which are letters,
\* digits, ".", "_" or "-"
Orig_C25_SlugCharset ==
    ret.st = "returned" =>
        /\ Len(ret.value) <= SLUG_MAX
        /\ \A j \in 1..Len(ret.value) : ret.value[j] \in SlugChars

\* the keyword arguments the claim calls invalid
C26_Invalid(kw) ==
    \/ Strip(kw.api_key, Whitespace) = <<>>
    \/ Strip(kw.library_id, Whitespace) = <<>>
    \/ kw.library_type \notin {"user", "group"}
    \/ kw.limit # <<>> /\ kw.limit[1] <= 0
    \/ kw.chunk_size <= 0
    \/ kw.max_workers # <<>> /\ kw.max_workers[1] <= 0
    \/ kw.workers_per_gpu <= 0
    \/ Lower(Strip(kw.image_processing, Whitespace)) \notin ImageProcessingValues
    \/ kw.reference_folder_name \notin {"absent", "citation-key", "item-title"}

\* C26: constructing zotero_files2md ExportSettings fails with ValueError
\* and yields no settings object whenever the api key or library id is
\* blank, the library type is not user or group, limit, chunk_size,
\* max_workers or workers_per_gpu is zero or negative, image_processing is
\* not embed, placeholder or drop, or reference_folder_name is not
\* citation-key or item-title
Orig_C26_InvalidSettingsRaiseValueError ==
    (ret.st # "none" /\ C26_Invalid(args)) => ret = Raised("ValueError")

\* the text before the first "=" of an entry and the text after it, trimmed
C27_Key(e) ==
    LET raw == Strip(e, Whitespace)
    IN Strip(SubSeq(raw, 1, FirstAt(raw, 1, {"="}, TRUE) - 1), Whitespace)

C27_Dir(e) ==
    LET raw == Strip(e, Whitespace)
    IN Strip(SubSeq(raw, FirstAt(raw, 1, {"="}, TRUE) + 1, Len(raw)), Whitespace)

C27_NonBlank(values) ==
    SelectSeq(values, LAMBDA e : Strip(e, Whitespace) # <<>>)

C27_Malformed(values) ==
    LET es == C27_NonBlank(values)
    IN \/ \E k \in 1..Len(es) : \/ \A j \in 1..Len(es[k]) : es[k][j] # "="
                               \/ C27_Key(es[k]) = <<>>
                               \/ C27_Dir(es[k]) = <<>>
       \/ \E k, m \in 1..Len(es) : k < m /\ C27_Key(es[k]) = C27_Key(es[m])

\* C27: parse_collection_output_pairs returns a mapping that keeps the
\* order of the input and the trimmed key and directory of every non-blank
\* entry, and raises ValueError, returning no mapping, when a non-blank
\* entry lacks "=", has an empty key or an empty directory, or repeats a key
Thm_C27_PairsParsed ==
    ret.st # "none" =>
        IF C27_Malformed(args) THEN ret = Raised("ValueError")
        ELSE LET es == C27_NonBlank(args)
             IN /\ ret.st = "returned"
                /\ Len(ret.value) = Len(es)
                /\ \A k \in 1..Len(es) :
                      ret.value[k] = << C27_Key(es[k]), Path(C27_Dir(es[k])) >>

\* " k = o " and "j=o=p" around a blank entry give the mapping k -> o,
\* j -> o=p in that order
Wit_C27_TwoPairsInOrder ==
    /\ args = << <<" ", "k", " ", "=", " ", "o", " ">>, <<" ">>,
                 <<"j", "=", "o", "=", "p">> >>
    /\ ret = Returned(<< << <<"k">>, Path(<<"o">>) >>,
                         << <<"j">>, Path(<<"o", "=", "p">>) >> >>)

\* the pages of a document, ascending
C28_Pages(document) ==
    Sorted(IF document.pages # {} THEN document.pages
           ELSE {p \in 1..MaxPage : document.items[p] # [HEADER |-> <<>>,
                                                        BODY |-> <<>>,
                                                        FOOTER |-> <<>>]})

\* chunk c is the START marker, the content or EMPTY marker, or the END
\* marker (part = 1, 2, 3) of the block of `section` of page p
C28_IsPart(document, c, p, section, part) ==
    LET text == Strip(document.items[p][section], Whitespace)
    IN CASE part = 1 -> c = [kind |-> "marker", page |-> p,
                             section |-> section, boundary |-> "START"]
         [] part = 2 -> IF text # <<>> THEN c = [kind |-> "text", text |-> text]
                        ELSE c = [kind |-> "marker", page |-> p,
                                  section |-> section, boundary |-> "EMPTY"]
         [] part = 3 -> c = [kind |-> "marker", page |-> p,
                             section |-> section, boundary |-> "END"]

\* C28: for a document with pages p1 < ... < pn, n >= 1, the rendering is,
\* page after page in ascending order, a HEADER block, a BODY block and a
\* FOOTER block, each a START marker, the content or the EMPTY marker and an
\* END marker, with one page-break marker between consecutive pages: n - 1
\* in all and none after the last page
Thm_C28_PageSections ==
    (ret.st = "returned" /\ C28_Pages(args) # <<>>) =>
        LET pages == C28_Pages(args)
            n == Len(pages)
            chunks == SelectSeq(ret.value, LAMBDA c : c # Separator)
            sections == << "HEADER", "BODY", "FOOTER" >>
        IN /\ Len(chunks) = 10 * n - 1
           /\ Len(ret.value) = 2 * Len(chunks) - 1
           /\ \A i \in 1..n : \A s \in 1..3 : \A part \in 1..3 :
                 C28_IsPart(args, chunks[10 * (i - 1) + 3 * (s - 1) + part],
                            pages[i], sections[s], part)
           /\ \A i \in 1..(n - 1) : chunks[10 * i] = PAGE_BREAK_MARKER
           /\ Cardinality({k \in 1..Len(chunks) :
                              chunks[k] = PAGE_BREAK_MARKER}) = n - 1

\* a rendering of two pages, one with header, body and footer and one with
\* a body only
Wit_C28_TwoPagesOneBreak ==
    /\ ret.st = "returned"
    /\ args.pages = {1, 3}
    /\ args.items[1].HEADER # <<>> /\ args.items[1].FOOTER # <<>>
    /\ args.items[3].HEADER = <<>> /\ args.items[3].BODY # <<>>
    /\ Len(ret.value) = 37
    /\ ret.value[19] = PAGE_BREAK_MARKER
    /\ ret.value[23] = [kind |-> "marker", page |-> 3, section |-> "HEADER",
                        boundary |-> "EMPTY"]

\* the slot of item t (slots and item indices count from 0 in the code)
C29_Slot(t) == (t - 1) % pool.total_workers

\* the accelerator that owns a slot: the accelerators own
\* processes_per_gpu[g] consecutive slots each, in the order of their ids
C29_Owner(slot) ==
    LET RECURSIVE Before(_)
        Before(g) == IF g = 1 THEN 0
                     ELSE Before(g - 1) + pool.processes_per_gpu[g - 1]
        g == CHOOSE k \in 1..Len(pool.gpu_ids) :
                 Before(k) <= slot /\ slot < Before(k) + pool.processes_per_gpu[k]
    IN pool.gpu_ids[g]

\* the pools in which item t is waiting or running
C29_PoolsOf(t) ==
    {e \in DOMAIN queues : \E k \in 1..Len(queues[e]) : queues[e][k] = t}
    \cup {workers[w].executor : w \in {v \in WorkerIds : workers[v].task = t}}

\* how often item t occurs in the queues and on the workers
C29_Copies(t) ==
    LET RECURSIVE InQueues(_)
        InQueues(E) ==
            IF E = {} THEN 0
            ELSE LET e == CHOOSE x \in E : TRUE
                 IN Len(SelectSeq(queues[e], LAMBDA x : x = t))
                    + InQueues(E \ {e})
    IN InQueues(DOMAIN queues)
       + Cardinality({w \in WorkerIds : workers[w].task = t})

C29_Submitted(t) == tasks[t].st # "new"

C29_Routing ==
    (Files /\ pool.regime = "gpu" /\ Len(tasks) > 0) =>
        /\ \A t \in 1..Len(tasks) :
              LET owner == C29_Owner(C29_Slot(t))
              IN /\ ~C29_Submitted(t) => C29_Copies(t) = 0
                 /\ tasks[t].st \in {"queued", "download"} =>
                        (C29_Copies(t) = 1 /\ C29_PoolsOf(t) = {owner})
                 /\ tasks[t].st \in {"finished", "collected"} =>
                        C29_Copies(t) = 0
                 /\ Started(t) => tasks[t].gpu = owner
        /\ (\E t \in 1..Len(tasks) : tasks[t].st = "collected") =>
               \A t \in 1..Len(tasks) : C29_Submitted(t)
        /\ pc \in {"collect", "done"} =>
               \A t \in 1..Len(tasks) : C29_Submitted(t)
        /\ \A k1, k2 \in 0..(pool.total_workers - 1) :
              LET routed(k) == Cardinality({t \in 1..Len(tasks) :
                                   C29_Submitted(t) /\ C29_Slot(t) = k})
              IN routed(k1) - routed(k2) <= 1

C29_Static ==
    (Files /\ pool.regime = "gpu" /\ Len(tasks) > 0) =>
        \A t \in 1..Len(tasks) :
            /\ (~C29_Submitted(t) /\ tasks'[t].st # "new") =>
                   /\ tasks'[t].st = "queued"
                   /\ queues' = [queues EXCEPT ![C29_Owner(C29_Slot(t))] =
                                                    Append(@, t)]
            /\ C29_Submitted(t) =>
                   /\ tasks'[t].st # "new"
                   /\ tasks[t].st # "queued" => tasks'[t].st # "queued"
                   /\ \A e \in DOMAIN queues :
                         Len(SelectSeq(queues'[e], LAMBDA x : x = t))
                             <= Len(SelectSeq(queues[e], LAMBDA x : x = t))
                   /\ \A w \in WorkerIds :
                         workers'[w].task = t =>
                             workers[w].executor = C29_Owner(C29_Slot(t))

\* C29: in the accelerator regime every accepted item is submitted once, to
\* the pool of the accelerator that owns slot (index mod total_workers);
\* every item is submitted before any result is collected; an item never
\* moves to another pool; the numbers of items of two slots differ by at
\* most 1
Thm_C29_StaticRouting == [] C29_Routing /\ [][C29_Static]_vars

\* three items over two slots on two accelerators: the first and the third
\* ran on accelerator 0, the second on accelerator 1, and all are collected
Wit_C29_ThreeItemsTwoSlots ==
    /\ Files /\ pool.regime = "gpu" /\ pc = "done"
    /\ Len(tasks) = 3 /\ pool.total_workers = 2 /\ Len(pool.gpu_ids) = 2
    /\ tasks[1].gpu = 0 /\ tasks[2].gpu = 1 /\ tasks[3].gpu = 0
    /\ \A t \in 1..3 : tasks[t].st = "collected"

\* the items being processed: taken by a worker and not yet returned
C30_Running ==
    {t \in 1..Len(tasks) :
        tasks[t].st \notin {"new", "queued", "finished", "collected"}}

\* C30: at every moment of a run at most total_workers items are being
\* processed; in the accelerator regime at most processes_per_gpu[g] items
\* are being processed on accelerator g, and processes_per_gpu[g] is at
\* least 1 and at most workers_per_gpu for every accelerator used
Thm_C30_ConcurrencyBounds ==
    (Files /\ pool.regime # "none") =>
        /\ Cardinality(C30_Running) <= pool.total_workers
        /\ pool.regime = "gpu" =>
              \A k \in 1..Len(pool.gpu_ids) :
                  /\ Cardinality({t \in C30_Running :
                                     tasks[t].gpu = pool.gpu_ids[k]})
                         <= pool.processes_per_gpu[k]
                  /\ 1 <= pool.processes_per_gpu[k]
                  /\ pool.processes_per_gpu[k] <= plan_in.workers_per_gpu

\* three items at once on two accelerators that have two workers and one
\* worker, with workers_per_gpu = 2
Wit_C30_AllWorkersBusy ==
    /\ Files /\ pool.regime = "gpu"
    /\ plan_in.workers_per_gpu = 2
    /\ pool.processes_per_gpu = << 2, 1 >>
    /\ Cardinality(C30_Running) = 3
    /\ Cardinality({t \in C30_Running : tasks[t].gpu = 0}) = 2
    /\ Cardinality({t \in C30_Running : tasks[t].gpu = 1}) = 1

\* an item's pipeline run is over
C31_Over(t) == tasks[t].st \in {"finished", "collected"}

\* one of the render attempts of item t succeeded
C31_Rendered(t) ==
    \E k \in 1..Len(tasks[t].attempts) : tasks[t].attempts[k].outcome = "ok"

\* C31: in a non-dry run an item's outcome is converted exactly if one of
\* its render attempts succeeded and the write to its output path succeeded;
\* on every other terminal path the outcome is skipped and the run has
\* completed no write to that output path
Orig_C31_ConvertedIffWritten ==
    (Files /\ ~settings.dry_run) =>
        \A t \in 1..Len(tasks) :
            C31_Over(t) =>
                /\ tasks[t].result.status = "converted" <=>
                       (C31_Rendered(t) /\ <<t, WritePath(t)>> \in writes)
                /\ tasks[t].result.status # "converted" =>
                       /\ tasks[t].result.status = "skipped"
                       /\ \A w \in writes : w[2] # WritePath(t)

\* the errors reachable from error `from` over the links that Links(err)
\* gives for an error
C32_Closure(errors, from, Links(_)) ==
    LET RECURSIVE Grow(_, _)
        Grow(S, n) ==
            IF n = 0 THEN S
            ELSE Grow(S \cup {k \in UNION {Links(errors[e]) : e \in S} : k # 0},
                      n - 1)
    IN Grow({from}, MaxErr)

C32_CauseAndContext(err) == {err.cause, err.context}
C32_CauseElseContext(err) == {IF err.cause # 0 THEN err.cause ELSE err.context}

\* an out-of-memory signal: a message with "cuda out of memory", or with
\* both "out of memory" and "cuda", in any case, or the typed error
C32_Signal(err) ==
    LET m == MessageLower(err.message)
    IN \/ \E k \in 1..(Len(m) - 1) : m[k] = "cuda" /\ m[k + 1] = "out of memory"
       \/ (\E k \in 1..Len(m) : m[k] = "out of memory")
             /\ (\E k \in 1..Len(m) : m[k] = "cuda")
       \/ err.typed

\* the call has returned, having looked at no error twice
C32_Terminated ==
    /\ ret.st = "returned"
    /\ Len(ret.value.chain) <= MaxErr
    /\ \A j, k \in 1..Len(ret.value.chain) :
          ret.value.chain[j] = ret.value.chain[k] => j = k

\* C32 as stated: whatever finite graph the cause and context links form,
\* the classifier terminates, and it returns true exactly if the raised
\* error or an error reachable from it over cause or context links carries
\* an out-of-memory signal
Orig_C32_WholeGraphInspected ==
    ret.st # "none" =>
        /\ C32_Terminated
        /\ ret.value.value <=>
               \E e \in C32_Closure(args.errors, args.exc, C32_CauseAndContext) :
                   C32_Signal(args.errors[e])

\* C32, amended: whatever finite graph the links form, the classifier
\* terminates, and it returns true exactly if an error on the chain that
\* starts at the raised error and goes from an error to its cause, or to its
\* context when it has no cause, carries an out-of-memory signal
Thm_C32_ChainInspected ==
    ret.st # "none" =>
        /\ C32_Terminated
        /\ ret.value.value <=>
               \E e \in C32_Closure(args.errors, args.exc, C32_CauseElseContext) :
                   C32_Signal(args.errors[e])

\* a cycle of three errors without a cause, the last of which carries the
\* signal: the classifier followed the context links and returned true
Wit_C32_SignalAtEndOfCycle ==
    /\ ret.st = "returned"
    /\ ret.value.value
    /\ ret.value.chain = << 1, 2, 3 >>
    /\ \A e \in 1..3 : args.errors[e].cause = 0
    /\ args.errors[3].context = 1
    /\ ~C32_Signal(args.errors[1]) /\ ~C32_Signal(args.errors[2])

\* ---------------------------------------------------------------- C33
\* the items the filter rejected, in source order
C33_Rejected ==
    SelectSeq([k \in 1..Len(attachments) |-> k],
              LAMBDA k : \A j \in 1..N : attachments_to_process[j] # k)

\* the filter's skipped outcomes in source order, then the outcome of each
\* accepted item in the order of the work set
C33_Expected ==
    [j \in 1..Len(C33_Rejected) |->
        Result(C33_Rejected[j], FilterPath(attachments[C33_Rejected[j]]),
               "skipped")]
    \o [t \in 1..N |-> tasks[t].result]

C33_Having(status) ==
    Cardinality({j \in 1..Len(C33_Expected) : C33_Expected[j].status = status})

\* an outcome handed over by a worker is kept at the index of its item in the
\* work set, whenever its worker finished
C33_SlotByIndex ==
    (Files /\ pc = "collect") =>
        \A t \in 1..N :
            processed[t] = IF tasks[t].st = "collected"
                           THEN tasks[t].result ELSE NoResult

\* C33: the summary of zotero_files2md's export_library depends on the
\* per-item outcomes only, never on the order in which the workers finish: the
\* work set keeps source order, every outcome a worker hands over is stored
\* at its item's index, and the returned summary counts and lists the
\* filter's skipped outcomes in source order followed by the accepted items'
\* outcomes in work-set order
Thm_C33_SummaryIgnoresCompletionOrder ==
    /\ Files =>
          \A i, j \in 1..N :
              i < j => attachments_to_process[i] < attachments_to_process[j]
    /\ C33_SlotByIndex
    /\ (Files /\ pc = "done" /\ ~settings.dry_run) =>
          /\ results = C33_Expected
          /\ summary.processed = Len(C33_Expected)
          /\ summary.converted = C33_Having("converted")
          /\ summary.skipped = C33_Having("skipped")
          /\ summary.dry_run = 0
          /\ summary.output_paths =
                 [j \in 1..Len(C33_Expected) |-> C33_Expected[j].output]

\* the second accepted item was handed over while the first is still being
\* worked on
Wit_C33_SecondFinishedFirst ==
    /\ Files /\ pc = "collect" /\ N = 2
    /\ tasks[2].st = "collected"
    /\ tasks[1].st \notin {"finished", "collected"}
    /\ processed[2] = tasks[2].result
    /\ processed[1] = NoResult

\* ---------------------------------------------------------------- C34
\* C34: under either naming strategy the path export_library resolved for an
\* item up-front (checked for existence, claimed for deduplication) is the
\* path the item's pipeline run writes to and reports in its outcome
Orig_C34_UpFrontPathIsPipelinePath ==
    (Files /\ ~settings.dry_run) =>
        \A t \in 1..Len(tasks) :
            /\ \A w \in writes :
                  w[1] = t =>
                      /\ w[2] = FilterPath(Item(t))
                      /\ w[2] \in seen_output_paths
            /\ (/\ tasks[t].st \in {"finished", "collected"}
                /\ tasks[t].result.status \in {"converted", "skipped"}) =>
                   tasks[t].result.output = FilterPath(Item(t))

\* ---------------------------------------------------------------- C35
\* work item t ran a CPU recovery on worker w: a second render attempt, on
\* the forced CPU device
C35_Recovered(w, t) ==
    /\ tasks[t].worker = w
    /\ Len(tasks[t].attempts) = 2
    /\ tasks[t].attempts[2].device = "cpu"

\* the first render attempt of t found the CPU converter of a recovery in
\* its worker's cache
C35_AfterRecovery(t) ==
    /\ tasks[t].attempts # <<>>
    /\ tasks[t].attempts[1].had = "cpu"
    /\ \E r \in 1..Len(tasks) : r # t /\ C35_Recovered(tasks[t].worker, r)

\* C35: a CPU fallback is confined to the item that triggered it: the first
\* render attempt of every item uses the configured device, never the forced
\* CPU device, and when the worker's cache holds the CPU converter of an
\* earlier recovery a converter is built for the configured device and used
Thm_C35_FallbackConfined ==
    Files =>
        \A t \in 1..Len(tasks) :
            tasks[t].attempts # <<>> =>
                LET first == tasks[t].attempts[1]
                IN /\ first.device = _resolve_docling_device
                   /\ first.device # "cpu"
                   /\ first.used.built_with = first.device
                   /\ first.had = "cpu" =>
                          /\ first.built
                          /\ first.used.owner = tasks[t].worker
                          /\ \E r \in 1..Len(tasks) :
                                r # t /\ C35_Recovered(tasks[t].worker, r)

\* the second item of a worker renders after the first item's CPU recovery
Wit_C35_NextItemAfterRecovery ==
    /\ Files
    /\ \E t \in 1..Len(tasks) :
          /\ C35_AfterRecovery(t)
          /\ tasks[t].attempts[1].outcome = "ok"

\* ---------------------------------------------------------------- C36
\* a worker is inside _process_attachment for work item t
C36_Running(t) ==
    tasks[t].st \in {"download", "convert", "render", "retry", "write"}

\* C36: the scratch files of a run of zotero_files2md's export_library are
\* private: no two work items are given the same temporary path, every
\* byte-fetch goes to the path of its own item, and the run's temporary
\* directory exists while any worker is at work and is gone only when every
\* outcome was handed over
Thm_C36_PrivateScratchFiles ==
    Files =>
        /\ \A t1, t2 \in 1..Len(tasks) :
              (/\ t1 # t2
               /\ tasks[t1].file_path # <<>>
               /\ tasks[t2].file_path # <<>>) =>
                  tasks[t1].file_path # tasks[t2].file_path
        /\ \A t \in 1..Len(tasks) :
              /\ tasks[t].downloads > 0 =>
                    /\ tasks[t].file_path # <<>>
                    /\ SubSeq(tasks[t].file_path, 1,
                              Len(Item(t).attachment_key))
                           = Item(t).attachment_key
              /\ C36_Running(t) => temp_dir_exists
        /\ ~temp_dir_exists =>
              /\ \A t \in 1..Len(tasks) : tasks[t].st = "collected"
              /\ \A w \in 1..Len(workers) : workers[w].task = 0

\* two attachments with the same file name are being downloaded at the same
\* time
Wit_C36_TwoDownloadsAtOnce ==
    /\ Files /\ Len(tasks) = 2
    /\ tasks[1].st = "download" /\ tasks[2].st = "download"
    /\ Filename(Item(1)) = Filename(Item(2))
    /\ Filename(Item(1)) # <<>>
    /\ temp_dir_exists

\* ---------------------------------------------------------------- C37
C37_SecondRun == args # NoCall /\ args.st = "first-run"

\* C37: a second run of export_library over the same items with overwrite
\* off and no outside change to the output directory reports every item the
\* first run wrote a file for as skipped, neither downloads nor renders it,
\* converts none of them and writes none of the first run's files again
Orig_C37_RerunIdempotent ==
    C37_SecondRun =>
        /\ \A t \in 1..Len(tasks) :
              Src(t) \in args.written =>
                  /\ tasks[t].downloads = 0
                  /\ tasks[t].attempts = <<>>
        /\ \A w \in writes : w[2] \notin args.paths
        /\ pc = "done" =>
              \A k \in args.written :
                  /\ ResultsOf(k) # {}
                  /\ \A j \in ResultsOf(k) : results[j].status = "skipped"

\* ---------------------------------------------------------------- C38
\* C38: within one iteration iter_attachments (and iter_pdf_attachments)
\* yields no attachment key twice, whatever the remote lists again on a later
\* page or under another of the filtered collections
Thm_C38_NoKeyYieldedTwice ==
    (ret # NoCall /\ args \in IterInputs) =>
        \A i, j \in 1..Len(ret.out) : i # j => ret.out[i] # ret.out[j]

\* an iteration over two collections that came to its end: the remote listed
\* the first item again on the second page of the first collection, and the
\* second item again under the second collection, and each was yielded once
Wit_C38_ListedAgainYieldedOnce ==
    /\ args \in IterInputs
    /\ args.remote = << R1, R2, R5 >>
    /\ args.chunk_size = 2 /\ args.limit = 0 /\ args.tag_filters = {}
    /\ args.collections_to_fetch = << 1, 2 >>
    /\ ret # NoCall /\ ret.st = "returned"
    /\ ret.out = << R1.key, R2.key >>
    /\ Len(SelectSeq(ret.requests, LAMBDA r : r[1] = "page")) = 5

\* ---------------------------------------------------------------- C39
C39_IsPage(i) == ret.requests[i][1] = "page"
C39_PageAt(i) ==
    Page(Listing(args.remote, ret.requests[i][2]), ret.requests[i][3],
         args.chunk_size)

\* the raw entries received for the collection of request i before request i
RECURSIVE C39_ReceivedBefore(_, _)
C39_ReceivedBefore(i, j) ==
    IF j = 0 THEN 0
    ELSE C39_ReceivedBefore(i, j - 1)
         + (IF C39_IsPage(j) /\ ret.requests[j][2] = ret.requests[i][2]
            THEN Len(C39_PageAt(j)) ELSE 0)

C39_Position(collection_key) ==
    CHOOSE k \in 1..Len(args.collections_to_fetch) :
        args.collections_to_fetch[k] = collection_key

\* every page request starts at the number of raw entries received so far
\* for its collection, no page is requested for a collection after its first
\* empty page, and the collections are visited in the order of the filter
C39_Paging ==
    \A i \in 1..Len(ret.requests) :
        C39_IsPage(i) =>
            /\ ret.requests[i][3] = C39_ReceivedBefore(i, i - 1)
            /\ \A j \in 1..(i - 1) :
                  C39_IsPage(j) =>
                      /\ C39_Position(ret.requests[j][2])
                             <= C39_Position(ret.requests[i][2])
                      /\ ret.requests[j][2] = ret.requests[i][2] =>
                             C39_PageAt(j) # <<>>

C39_Ended == ret.st = "returned"

\* the collections for which an empty page was received
C39_Finished ==
    {ret.requests[i][2] : i \in {j \in 1..Len(ret.requests) :
                                    C39_IsPage(j) /\ C39_PageAt(j) = <<>>}}

C39_AllVisited ==
    C39_Finished = {args.collections_to_fetch[k] :
                       k \in 1..Len(args.collections_to_fetch)}

C39_Safe(state) == (ret # NoCall /\ args \in IterInputs) => state

C40_Mapping == args.collection_output_dirs

RECURSIVE C40_Sum(_, _)
C40_Sum(runs, field) ==
    IF runs = <<>> THEN 0
    ELSE C40_Sum(SubSeq(runs, 1, Len(runs) - 1), field)
         + (IF field = "processed" THEN runs[Len(runs)].summary.processed
            ELSE IF field = "converted" THEN runs[Len(runs)].summary.converted
            ELSE IF field = "skipped" THEN runs[Len(runs)].summary.skipped
            ELSE runs[Len(runs)].summary.dry_run)

RECURSIVE C40_Paths(_)
C40_Paths(runs) ==
    IF runs = <<>> THEN <<>>
    ELSE C40_Paths(SubSeq(runs, 1, Len(runs) - 1))
         \o runs[Len(runs)].summary.output_paths

\* the exports run so far are those of the first entries of the mapping, one
\* each and in mapping order, each with the entry's output directory and the
\* entry's collection key as its only collection filter
C40_OneExportPerEntry ==
    /\ Len(ret.exports) <= Len(C40_Mapping)
    /\ \A k \in 1..Len(ret.exports) :
          /\ ret.exports[k].collections = {C40_Mapping[k][1]}
          /\ ret.exports[k].output_dir = C40_Mapping[k][2]
    /\ Len(ret.runs) <= Len(ret.exports)
    /\ \A k \in 1..Len(ret.runs) :
          /\ ret.runs[k].collection_key = C40_Mapping[k][1]
          /\ ret.runs[k].output_dir = C40_Mapping[k][2]

\* C40: export_collections runs one export per mapping entry, in mapping
\* order, each restricted to the entry's collection key and output directory,
\* leaves the base settings as they were, and returns the sums of the runs'
\* counts and the runs' output paths concatenated in run order; an empty
\* mapping raises ValueError and no export is run
Thm_C40_OneExportPerCollection ==
    (ret # NoCall /\ args \in [base_settings : BatchSettings,
                                collection_output_dirs : Mappings]) =>
        IF C40_Mapping = <<>>
        THEN ret = Raised("ValueError")
        ELSE /\ ret.st \in {"loop", "raised", "returned"}
             /\ C40_OneExportPerEntry
             /\ ret.base_settings = args.base_settings
             /\ ret.st = "returned" =>
                   /\ Len(ret.exports) = Len(C40_Mapping)
                   /\ Len(ret.runs) = Len(C40_Mapping)
                   /\ ret.processed = C40_Sum(ret.runs, "processed")
                   /\ ret.converted = C40_Sum(ret.runs, "converted")
                   /\ ret.skipped = C40_Sum(ret.runs, "skipped")
                   /\ ret.dry_run = C40_Sum(ret.runs, "dry_run")
                   /\ ret.output_paths = C40_Paths(ret.runs)

\* a returned batch over two collections with different output directories,
\* the base settings having a collection filter of their own, both exports
\* reporting an outcome
Wit_C40_TwoCollectionsSummed ==
    /\ args \in [base_settings : BatchSettings,
                 collection_output_dirs : Mappings]
    /\ args.base_settings.collections # {}
    /\ C40_Mapping = << << 2, "d2" >>, << 1, "d1" >> >>
    /\ ret.st = "returned"
    /\ ret.processed = 2 /\ ret.converted = 1 /\ ret.skipped = 1
    /\ ret.output_paths = << << "d2", "f" >>, << "d1", "f" >> >>

====
